---- MODULE Spec2Model ----
(***************************************************************************)
(* Model of krjhnsn/python_tools: cf_data_tools.py (survey XML walker,     *)
(* alt-set organizer, k-field parser, bulk-file readers, export-spec       *)
(* assembler).  Each component has its own specification; the variables    *)
(* of the other components stay at their initial values.                   *)
(***************************************************************************)
EXTENDS Integers, Sequences, FiniteSets, TLC

VARIABLES
    \* ---- create_survey_spec: the XML parser's side ----
    open,                   \* stack of the elements iterparse has open
    starts,                 \* number of start events delivered so far
    enclosing,              \* per start event: innermost GROUP open at it
    \* ---- create_survey_spec: locals of the function ----
    page_num, xml_node_num, xml_nestingroup_depth, xml_group_flag,
    group_name, group_condition, group_text, question_text,
    output,                 \* the emitted records, in emission order
    walk_status,            \* "walking" | "traversed" | "returned" | "error"
    df_q_field,             \* what read_q_fields gave create_survey_spec
    df_survey_spec_output,  \* the rows create_survey_spec returns
    \* ---- organize_alt_sets ----
    alt_table,              \* the dataframe passed in, a sequence of rows
    alt_result,             \* what the call returned; NotCalled before it
    \* ---- parse_k_fields ----
    k_table,                \* df_k_fields: rows of '# Key' and 'Calculation'
    q_keys, e_keys, a_keys, \* the '# Key' columns of the q, e and a tables
    k_edges,                \* the rows returned for k_table
    k_perm,                 \* a reordering of k_table's rows
    k_perm_edges,           \* the rows returned for the reordered table
    \* ---- bulk-file readers and create_export_spec ----
    fs,                     \* the file system: what each path names
    read_call,              \* the last reader call and what it did
    export_call,            \* the last create_export_spec call, likewise
    \* ---- read_exports and read_alt_sets, line by line ----
    exports_file,           \* the exports text file: lines of cells
    exports_read,           \* the read_exports call and what it returned
    alt_file,               \* the alt-sets text file: lines of cells
    alt_read,               \* what read_alt_sets returned for alt_file
    \* ---- response-update.py ----
    upd_pc,                 \* where the script is: "start" | "surveys" |
                            \* "rows" | "waiting" | "done"
    df_input,               \* df: the input table, a sequence of rows
    survey_ids,             \* the survey ids the outer loop has yet to take
    col_list,               \* the columns sent as embedded data
    count,                  \* rows handled so far
    ed_fields,              \* the dictionary passed to make_update
    survey_id,              \* the outer loop's variable
    rows_to_update,         \* indices the inner loop has yet to take
    requests,               \* the PUT requests issued, in order
    responses,              \* how each make_update call ended, in order
    \* ---- create_export_spec: the joins ----
    join_export,            \* df_export, as read_exports returned it
    join_fields,            \* the q, e and k field subsets, concatenated
    join_alt_sets,          \* what organize_alt_sets returned
    join_survey,            \* df_survey_spec, as create_survey_spec gave it
    join_result             \* what lines 116-160 made of the four

wvars == <<open, starts, enclosing, page_num, xml_node_num,
           xml_nestingroup_depth, xml_group_flag, group_name,
           group_condition, group_text, question_text, output, walk_status,
           df_q_field, df_survey_spec_output>>

avars == <<alt_table, alt_result>>

kvars == <<k_table, q_keys, e_keys, a_keys, k_edges, k_perm, k_perm_edges>>

rvars == <<fs, read_call, export_call, exports_file, exports_read,
           alt_file, alt_read>>

uvars == <<upd_pc, df_input, survey_ids, col_list, count, ed_fields,
           survey_id, rows_to_update, requests, responses>>

jvars == <<join_export, join_fields, join_alt_sets, join_survey, join_result>>

vars == <<wvars, avars, kvars, rvars, uvars, jvars>>

NA == "NA"                  \* the 'NA' sentinel of attrib.get(..., 'NA')
Unbound == "<unbound>"      \* a Python local that was never assigned

(***************************************************************************)
(* Bounds of the survey documents explored.                                *)
(***************************************************************************)
MaxNodes == 4               \* elements (start events) per document
MaxDepth == 3               \* nesting depth of a document
MaxMergeNodes == 3          \* elements of the documents whose records
                            \* are followed through the q-field merge
MaxRows == 2                \* rows of an alt-set table
MaxKRows == 2               \* rows of a k-field table
MaxExportLines == 4         \* lines of an exports text file
MaxAltLines == 4            \* lines of an alt-sets text file

(***************************************************************************)
(* Survey XML elements: the attributes create_survey_spec reads.           *)
(***************************************************************************)
El(type, name, text, field, condition) ==
    [type |-> type, name |-> name, text |-> text, field |-> field,
     condition |-> condition]

Elements ==
    { El(NA, NA, NA, NA, NA),
      El("PAGE_BREAK", NA, NA, NA, NA),
      El("GROUP", "g", "g text", NA, "g cond"),
      El("CHOOSE_MANY", NA, "cm text", "q_2", NA),
      El("GRID", NA, "grid text", NA, NA),
      El("EXPLANATION", NA, "expl text", NA, NA),
      El("ALT_ENTRY", "alt name", NA, NA, NA),
      El("ALT_COLUMN", NA, NA, NA, NA),
      El("SIMPLE_QUESTION", NA, NA, "q_1", NA) }

\* the n-th element of a document: every GROUP of a document has a name, a
\* text and a condition of its own
Numbered(node, n) ==
    IF node.type # "GROUP" THEN node
    ELSE CASE n = 1 -> El("GROUP", "g1", "g1 text", NA, "g1 cond")
           [] n = 2 -> El("GROUP", "g2", "g2 text", NA, "g2 cond")
           [] n = 3 -> El("GROUP", "g3", "g3 text", NA, "g3 cond")
           [] n = 4 -> El("GROUP", "g4", "g4 text", NA, "g4 cond")
           [] n = 5 -> El("GROUP", "g5", "g5 text", NA, "g5 cond")
           [] OTHER -> node

types == {"CHOOSE_MANY", "GRID", "EXPLANATION"}

(***************************************************************************)
(* One iteration of the iterparse loop, piece by piece.                    *)
(***************************************************************************)
NextDepth_StartOnly(depth, event) ==
    IF event = "start" THEN depth + 1 ELSE depth

\* lines 993-997
NextDepth(depth, event) ==
    IF event = "start" THEN depth + 1 ELSE depth - 1

NextPageNum_AnyEvent(page, node, event) ==
    IF node.type = "PAGE_BREAK" THEN page + 1 ELSE page

\* lines 1007-1009
NextPageNum(page, node, event) ==
    IF node.type = "PAGE_BREAK" /\ event = "start" THEN page + 1 ELSE page

GroupLogic_KeepWhenClear(node, event, flag, gname, gcond, gtext, qtext) ==
    IF node.type = "GROUP" /\ event = "start"
    THEN [flag |-> TRUE, name |-> node.name, condition |-> node.condition,
          text |-> node.text, qtext |-> qtext]
    ELSE IF flag = FALSE
    THEN [flag |-> flag, name |-> gname, condition |-> gcond,
          text |-> gtext, qtext |-> NA]
    ELSE IF node.type = "GROUP" /\ flag /\ event = "end"
    THEN [flag |-> FALSE, name |-> gname, condition |-> gcond,
          text |-> gtext, qtext |-> NA]
    ELSE [flag |-> flag, name |-> gname, condition |-> gcond,
          text |-> gtext, qtext |-> qtext]

\* lines 1015-1037: the if / elif / elif chain on GROUP nodes.  The result is
\* the group context and question_text after the chain.
GroupLogic(node, event, flag, gname, gcond, gtext, qtext) ==
    IF node.type = "GROUP" /\ event = "start"
    THEN [flag |-> TRUE, name |-> node.name, condition |-> node.condition,
          text |-> node.text, qtext |-> qtext]
    ELSE IF flag = FALSE
    THEN [flag |-> flag, name |-> NA, condition |-> NA, text |-> NA,
          qtext |-> NA]
    ELSE IF node.type = "GROUP" /\ flag /\ event = "end"
    THEN [flag |-> FALSE, name |-> gname, condition |-> gcond,
          text |-> gtext, qtext |-> NA]
    ELSE [flag |-> flag, name |-> gname, condition |-> gcond,
          text |-> gtext, qtext |-> qtext]

QuestionLogic_KeepEarlier(node, event, qtext) ==
    LET q1 == IF node.type \in types /\ event = "start" /\ qtext = NA
              THEN node.text ELSE qtext
        q2 == IF node.type \in types /\ event = "end"
                 /\ node.type # "EXPLANATION"
              THEN NA ELSE q1
        q3 == IF node.type = "ALT_ENTRY" /\ event = "start" /\ q2 = NA
              THEN node.name ELSE q2
    IN  q3

QuestionLogic_ResetAll(node, event, qtext) ==
    LET q1 == IF node.type \in types /\ event = "start"
              THEN node.text ELSE qtext
        q2 == IF node.type \in types /\ event = "end" THEN NA ELSE q1
        q3 == IF node.type = "ALT_ENTRY" /\ event = "start"
              THEN node.name ELSE q2
    IN  q3

\* lines 1056-1066: own-label rules; the last true 'if' wins
QuestionLogic(node, event, qtext) ==
    LET q1 == IF node.type \in types /\ event = "start"
              THEN node.text ELSE qtext
        q2 == IF node.type \in types /\ event = "end"
                 /\ node.type # "EXPLANATION"
              THEN NA ELSE q1
        q3 == IF node.type = "ALT_ENTRY" /\ event = "start"
              THEN node.name ELSE q2
    IN  q3

\* line 1070: 'q-field text - ' + field, over the field attributes of
\* Elements
QFieldText(field) ==
    CASE field = "q_1" -> "q-field text - q_1"
      [] field = "q_2" -> "q-field text - q_2"
      [] OTHER        -> "q-field text - NA"

\* line 1069: output['type'][xml_node_num-1] on an empty list raises
\* IndexError; 'and' evaluates it only for an ALT_COLUMN node
LookbackRaises(node, out, num) ==
    node.type = "ALT_COLUMN" /\ num = 0 /\ Len(out) = 0

\* lines 1068-1070 (no test of the event)
LookbackLogic(node, event, out, num, qtext) ==
    IF node.type = "ALT_COLUMN" /\ num >= 1
       /\ out[num].type = "SIMPLE_QUESTION"
    THEN QFieldText(out[num].field)
    ELSE qtext

\* lines 1077-1088: the record appended on a start event
Record(num, depth, page, g, node, qtext) ==
    [xml_node_number |-> num, xml_node_depth |-> depth,
     survey_page_number |-> page, group_name |-> g.name,
     group_text |-> g.text, group_condition |-> g.condition,
     type |-> node.type, name |-> node.name, field |-> node.field,
     question_text |-> qtext, condition |-> node.condition]

\* innermost open GROUP of a stack of open elements; an element of type NA
\* if no GROUP is open
RECURSIVE InnermostGroup(_)
InnermostGroup(stack) ==
    IF stack = <<>> THEN El(NA, NA, NA, NA, NA)
    ELSE IF stack[Len(stack)].type = "GROUP" THEN stack[Len(stack)]
    ELSE InnermostGroup(SubSeq(stack, 1, Len(stack) - 1))

\* lines 991-1091: the body of the loop for one (event, node) pair
WalkStep(event, node) ==
    LET depth1 == NextDepth(xml_nestingroup_depth, event)
        page1  == NextPageNum(page_num, node, event)
        g      == GroupLogic(node, event, xml_group_flag, group_name,
                             group_condition, group_text, question_text)
        q1     == QuestionLogic(node, event, g.qtext)
        raises == LookbackRaises(node, output, xml_node_num)
        q2     == IF raises THEN q1
                  ELSE LookbackLogic(node, event, output, xml_node_num, q1)
        fails  == raises \/ (event = "start" /\ q2 = Unbound)
    IN  IF fails
        THEN /\ walk_status' = "error"
             /\ UNCHANGED <<page_num, xml_node_num, xml_nestingroup_depth,
                            xml_group_flag, group_name, group_condition,
                            group_text, question_text, output>>
        ELSE /\ xml_nestingroup_depth' = depth1
             /\ page_num' = page1
             /\ xml_group_flag' = g.flag
             /\ group_name' = g.name
             /\ group_condition' = g.condition
             /\ group_text' = g.text
             /\ question_text' = q2
             /\ IF event = "start"
                THEN /\ output' = Append(output,
                            Record(xml_node_num, depth1, page1, g, node, q2))
                     /\ xml_node_num' = xml_node_num + 1
                ELSE UNCHANGED <<output, xml_node_num>>
             /\ walk_status' =
                    IF event = "end" /\ Len(open) = 1
                    THEN "traversed" ELSE "walking"

\* iterparse delivers the start event of the root or of a child element
StartEvent ==
    /\ walk_status = "walking"
    /\ starts < MaxNodes
    /\ Len(open) < MaxDepth
    /\ (starts = 0 \/ open # <<>>)
    /\ UNCHANGED <<df_q_field, df_survey_spec_output>>
    /\ UNCHANGED <<avars, kvars, rvars, uvars, jvars>>
    /\ \E el \in Elements :
         LET node == Numbered(el, starts + 1)
         IN  /\ open' = Append(open, node)
             /\ starts' = starts + 1
             /\ enclosing' =
                    Append(enclosing, InnermostGroup(Append(open, node)))
             /\ WalkStep("start", node)

\* iterparse delivers the end event of the innermost open element
EndEvent ==
    /\ walk_status = "walking"
    /\ open # <<>>
    /\ open' = SubSeq(open, 1, Len(open) - 1)
    /\ UNCHANGED <<starts, enclosing, df_q_field, df_survey_spec_output>>
    /\ UNCHANGED <<avars, kvars, rvars, uvars, jvars>>
    /\ WalkStep("end", open[Len(open)])

(***************************************************************************)
(* After the loop: the q-field labels are merged onto the records.         *)
(***************************************************************************)
NaN == "<NaN>"              \* a missing value of a dataframe cell
NotRead == <<"not read">>
NoDataFrame == <<"None">>   \* read_q_fields returned None

\* the '# Key' and 'In survey' columns of the q-field tables explored: no
\* rows, a label for q_1 and none for q_2, and q_1 on two rows with a
\* labelled q_2
QFieldTables ==
    { <<>>,
      <<[field |-> "q_1", In_survey |-> "q1 label"],
        [field |-> "q_2", In_survey |-> NaN]>>,
      <<[field |-> "q_1", In_survey |-> "q1 label"],
        [field |-> "q_1", In_survey |-> "q1 other label"],
        [field |-> "q_2", In_survey |-> "q2 label"]>> }

\* the rows of the right table whose key equals the left row's, in order
RECURSIVE MatchesOf(_, _)
MatchesOf(field, table) ==
    IF table = <<>> THEN <<>>
    ELSE (IF Head(table).field = field THEN <<Head(table)>> ELSE <<>>)
            \o MatchesOf(field, Tail(table))

\* line 1120: pd.merge(df_output, df_q_field, on='field', how='left'): the
\* left rows in order, once per matching right row, once with a missing
\* 'In survey' when none matches
RECURSIVE LeftMerge(_, _)
LeftMerge(out, table) ==
    IF out = <<>> THEN <<>>
    ELSE LET m == MatchesOf(Head(out).field, table)
         IN  (IF m = <<>> THEN <<[rec |-> Head(out), In_survey |-> NaN]>>
              ELSE [i \in 1..Len(m) |->
                       [rec |-> Head(out), In_survey |-> m[i].In_survey]])
                \o LeftMerge(Tail(out), table)

\* line 1121
FillNa(cell) == IF cell = NaN THEN NA ELSE cell

select_question_text_Always(df_column_1, df_column_2) ==
    IF df_column_2 # NA THEN df_column_2 ELSE df_column_1

\* lines 1124-1128
select_question_text(df_column_1, df_column_2) ==
    IF df_column_1 = NA /\ df_column_2 # NA THEN df_column_2
    ELSE df_column_1

\* lines 1131-1134: the row kept, 'question_text' and 'In survey' dropped
SurveySpecRow(m) ==
    [xml_node_number |-> m.rec.xml_node_number,
     xml_node_depth |-> m.rec.xml_node_depth,
     survey_page_number |-> m.rec.survey_page_number,
     group_name |-> m.rec.group_name, group_text |-> m.rec.group_text,
     group_condition |-> m.rec.group_condition,
     type |-> m.rec.type, name |-> m.rec.name, field |-> m.rec.field,
     condition |-> m.rec.condition,
     survey_question_text |->
        select_question_text(m.rec.question_text, FillNa(m.In_survey))]

\* lines 1097-1134
SurveySpecOutput(out, table) ==
    LET merged == LeftMerge(out, table)
    IN  [i \in 1..Len(merged) |-> SurveySpecRow(merged[i])]

\* the loop is over: read_q_fields is called (line 1112) and the merged
\* rows are returned
MergeQFields ==
    /\ walk_status = "traversed"
    /\ starts <= MaxMergeNodes
    /\ \E table \in QFieldTables :
         /\ df_q_field' = table
         /\ df_survey_spec_output' = SurveySpecOutput(output, table)
    /\ walk_status' = "returned"
    /\ UNCHANGED <<open, starts, enclosing, page_num, xml_node_num,
                   xml_nestingroup_depth, xml_group_flag, group_name,
                   group_condition, group_text, question_text, output>>
    /\ UNCHANGED <<avars, kvars, rvars, uvars, jvars>>

\* read_q_fields returns None: line 1113 raises TypeError inside the try
\* and the except of line 1137 returns None
MergeFails ==
    /\ walk_status = "traversed"
    /\ starts <= MaxMergeNodes
    /\ df_q_field' = NoDataFrame
    /\ walk_status' = "error"
    /\ UNCHANGED <<open, starts, enclosing, page_num, xml_node_num,
                   xml_nestingroup_depth, xml_group_flag, group_name,
                   group_condition, group_text, question_text, output,
                   df_survey_spec_output>>
    /\ UNCHANGED <<avars, kvars, rvars, uvars, jvars>>

\* lines 964-982
WalkInit ==
    /\ open = <<>> /\ starts = 0 /\ enclosing = <<>>
    /\ page_num = 1 /\ xml_node_num = 0 /\ xml_nestingroup_depth = 0
    /\ xml_group_flag = FALSE
    /\ group_name = Unbound /\ group_condition = Unbound
    /\ group_text = Unbound /\ question_text = Unbound
    /\ output = <<>>
    /\ walk_status = "walking"
    /\ df_q_field = NotRead
    /\ df_survey_spec_output = <<>>

WalkNext == StartEvent \/ EndEvent \/ MergeQFields \/ MergeFails

(***************************************************************************)
(* organize_alt_sets.  A Python string is a sequence of pieces, "" being   *)
(* <<>> and "Y; N" being <<"Y", "; ", "N">>; a cell is null (NaN), holds   *)
(* a string, or holds a float, of which s is the text str() gives.         *)
(***************************************************************************)
Null == [null |-> TRUE, float |-> FALSE, s |-> <<>>]
S(str) == [null |-> FALSE, float |-> FALSE, s |-> str]
Float(str) == [null |-> FALSE, float |-> TRUE, s |-> str]
Sep == <<"; ">>

\* pd.isnull
IsNull(cell) == cell.null

\* str(x): NaN prints as 'nan'
PyStr(cell) == IF IsNull(cell) THEN <<"nan">> ELSE cell.s

\* int(x) succeeds on the cells holding integer text and on every float but
\* NaN; int(NaN), int('') and int('1.5') raise ValueError
IntParses(cell) ==
    /\ ~IsNull(cell)
    /\ cell.float \/ cell.s \in {<<"1">>, <<"2">>, <<"01">>}

\* str(int(x)): the canonical decimal text; int() of a float drops the
\* fractional part
IntText(cell) ==
    CASE cell.s = <<"01">>  -> <<"1">>
      [] cell.s = <<"1.5">> -> <<"1">>
      [] OTHER              -> cell.s

\* lines 595-598 and 603-606: str(int(x)), or str(x) when int raises
AltConv(cell) ==
    IF IntParses(cell) THEN IntText(cell) ELSE PyStr(cell)

AltNames == {"YesNo", "Scale"}
AltNumbers == {S(<<"1">>), S(<<"2">>)}
AltLabels == {Null, S(<<>>), S(<<"Y">>), S(<<"N">>)}
AltValues == {Null, S(<<>>), S(<<"1">>), S(<<"2">>), S(<<"01">>),
              S(<<"1.5">>), Float(<<"1.5">>)}

\* a row of the dataframe: the four columns organize_alt_sets reads
AltRows ==
    [Name : AltNames, AltSetNumber : AltNumbers, InSurvey : AltLabels,
     ExportValue : AltValues]

\* lines 564-565: unique() keeps the order of first appearance
RECURSIVE UniqueNames(_)
UniqueNames(table) ==
    IF table = <<>> THEN <<>>
    ELSE LET rest == UniqueNames(SubSeq(table, 1, Len(table) - 1))
             nm   == table[Len(table)].Name
         IN  IF \E i \in 1..Len(rest) : rest[i] = nm
             THEN rest ELSE Append(rest, nm)

\* line 570: the rows of one set, in file order
RECURSIVE RowsOfSet(_, _)
RowsOfSet(table, nm) ==
    IF table = <<>> THEN <<>>
    ELSE LET rest == RowsOfSet(SubSeq(table, 1, Len(table) - 1), nm)
         IN  IF table[Len(table)].Name = nm
             THEN Append(rest, table[Len(table)]) ELSE rest

\* lines 609-618
LabelStep(lab, cell) ==
    IF lab = <<>>
    THEN IF IsNull(cell) THEN lab ELSE PyStr(cell)
    ELSE lab \o Sep \o PyStr(cell)

\* lines 583-588
NumberStep(num, cell) ==
    IF num = <<>>
    THEN IF IsNull(cell) THEN num ELSE cell.s
    ELSE num

\* lines 590-607.  The local 'value' survives from row to row and from set
\* to set; 'bound' says whether it was ever assigned.  On the first-item
\* branch 'alt_set_value = value' runs even when the cell is null, which
\* raises UnboundLocalError while 'value' is unassigned.
ValueStep(st, cell) ==
    IF st.val = <<>>
    THEN LET bound1 == st.bound \/ ~IsNull(cell)
             value1 == IF IsNull(cell) THEN st.value ELSE AltConv(cell)
         IN  [st EXCEPT !.bound = bound1, !.value = value1,
                        !.val = IF bound1 THEN value1 ELSE st.val,
                        !.raised = st.raised \/ ~bound1]
    ELSE [st EXCEPT !.bound = TRUE, !.value = AltConv(cell),
                    !.val = st.val \o Sep \o AltConv(cell)]

\* lines 578-618: the loop over the rows of one set
RECURSIVE SetLoop(_, _)
SetLoop(st, rows) ==
    IF rows = <<>> \/ st.raised THEN st
    ELSE LET row == Head(rows)
             s1  == [st EXCEPT !.num = NumberStep(st.num, row.AltSetNumber)]
             s2  == ValueStep(s1, row.ExportValue)
             s3  == [s2 EXCEPT !.lab = LabelStep(s2.lab, row.InSurvey)]
         IN  SetLoop(IF s2.raised THEN s2 ELSE s3, Tail(rows))

\* lines 568-623: the loop over the set names
RECURSIVE NameLoop(_, _, _, _)
NameLoop(table, names, st, out) ==
    IF names = <<>> \/ st.raised THEN [raised |-> st.raised, rows |-> out]
    ELSE LET s0 == [st EXCEPT !.num = <<>>, !.val = <<>>, !.lab = <<>>]
             s1 == SetLoop(s0, RowsOfSet(table, Head(names)))
             r  == [alt_set_name |-> Head(names), alt_set_number |-> s1.num,
                    alt_set_labels |-> s1.lab, alt_set_values |-> s1.val]
         IN  NameLoop(table, Tail(names), s1, Append(out, r))

NotCalled == [status |-> "not called", rows |-> <<>>]
None == [status |-> "None", rows |-> <<>>]

\* lines 555-644: the dataframe returned, or None from the blanket except
organize_alt_sets(table) ==
    LET st0 == [bound |-> FALSE, value |-> <<>>, raised |-> FALSE,
                num |-> <<>>, val |-> <<>>, lab |-> <<>>]
        res == NameLoop(table, UniqueNames(table), st0, <<>>)
    IN  IF res.raised THEN None
        ELSE [status |-> "returned", rows |-> res.rows]

AltInit == alt_table = <<>> /\ alt_result = NotCalled

\* the caller builds the dataframe row by row (read_alt_sets, line 493)
AltAppendRow ==
    /\ alt_result = NotCalled
    /\ Len(alt_table) < MaxRows
    /\ \E row \in AltRows : alt_table' = Append(alt_table, row)
    /\ UNCHANGED <<alt_result, wvars, kvars, rvars, uvars, jvars>>

AltOrganize ==
    /\ alt_result = NotCalled
    /\ alt_result' = organize_alt_sets(alt_table)
    /\ UNCHANGED <<alt_table, wvars, kvars, rvars, uvars, jvars>>

AltNext == AltAppendRow \/ AltOrganize

(***************************************************************************)
(* parse_k_fields.  Keys and calculation texts are sequences of            *)
(* characters, so that strip and the regular expressions act on them.      *)
(***************************************************************************)
q_5 == <<"q", "_", "5">>
q_5_padded == <<"q", "_", "5", " ">>
q_6 == <<"q", "_", "6">>
q_7 == <<"q", "_", "7">>
q_50 == <<"q", "_", "5", "0">>
e_1 == <<"e", "_", "1">>
k_1 == <<"k", "_", "1">>
k_1_padded == <<"k", "_", "1", " ">>
k_2 == <<"k", "_", "2">>

DigitChars == {"0", "1", "2", "5", "6", "7"}
\* \w: letters, digits and the underscore
WordChars == {"q", "e", "a", "k", "_"} \cup DigitChars

\* the calculation texts explored
CalcTexts ==
    { <<"q", "_", "5", " ", "+", " ", "q", "_", "6", " ", "*", " ", "2">>,
      <<"q", "_", "5", "0">>,
      <<"k", "_", "2", "+", "q", "_", "7">>,
      <<"k", "_", "1", "*", "2">>,
      <<"e", "_", "1">> }

KRawKeys == {k_1, k_1_padded, k_2}
KRows == [Key : KRawKeys, Calculation : CalcTexts]

QKeyColumns == { <<q_5, q_6, q_7>>, <<q_5_padded, q_50>> }
EKeyColumns == { <<>>, <<e_1>> }
AKeyColumns == { <<>> }

\* str.strip(' ')
RECURSIVE Strip(_)
Strip(str) ==
    IF str = <<>> THEN str
    ELSE IF Head(str) = " " THEN Strip(Tail(str))
    ELSE IF str[Len(str)] = " " THEN Strip(SubSeq(str, 1, Len(str) - 1))
    ELSE str

WordRunEnd_OneChar(text, i) == i

\* end of the run of \w characters that starts at position i (i - 1 if none)
RECURSIVE WordRunEnd(_, _)
WordRunEnd(text, i) ==
    IF i <= Len(text) /\ text[i] \in WordChars
    THEN WordRunEnd(text, i + 1) ELSE i - 1

\* re.findall(prefix + "_\w+", text): leftmost, non-overlapping, greedy
RECURSIVE FindAll(_, _, _)
FindAll(prefix, text, i) ==
    IF i > Len(text) THEN <<>>
    ELSE IF /\ text[i] = prefix
            /\ i + 2 <= Len(text)
            /\ text[i + 1] = "_"
            /\ text[i + 2] \in WordChars
    THEN LET j == WordRunEnd(text, i + 2)
         IN  <<SubSeq(text, i, j)>> \o FindAll(prefix, text, j + 1)
    ELSE FindAll(prefix, text, i + 1)

\* lines 866-872
AllMatches(calc) ==
    FindAll("q", calc, 1) \o FindAll("e", calc, 1)
        \o FindAll("a", calc, 1) \o FindAll("k", calc, 1)

DictSet_Reset(dict, key, val) == <<[key |-> key, val |-> val]>>

\* line 875: k_field_dict[key] = val; a key already present keeps its place
\* and takes the new value
DictSet(dict, key, val) ==
    IF \E i \in 1..Len(dict) : dict[i].key = key
    THEN [i \in 1..Len(dict) |->
             IF dict[i].key = key THEN [key |-> key, val |-> val]
             ELSE dict[i]]
    ELSE Append(dict, [key |-> key, val |-> val])

\* lines 862-875
RECURSIVE BuildDict(_, _)
BuildDict(table, dict) ==
    IF table = <<>> THEN dict
    ELSE BuildDict(Tail(table),
                   DictSet(dict, Strip(Head(table).Key),
                           AllMatches(Head(table).Calculation)))

\* Series.unique().tolist(): first appearances, in order
RECURSIVE Unique(_)
Unique(list) ==
    IF list = <<>> THEN <<>>
    ELSE LET rest == Unique(SubSeq(list, 1, Len(list) - 1))
             x    == list[Len(list)]
         IN  IF \E i \in 1..Len(rest) : rest[i] = x
             THEN rest ELSE Append(rest, x)

\* lines 879-893: unique(), then strip(' ') of every key
FieldList(column) ==
    LET u == Unique(column) IN [i \in 1..Len(u) |-> Strip(u[i])]

\* line 895
AllList(table, qs, es, as) ==
    FieldList(es) \o FieldList(qs) \o FieldList(as)
        \o FieldList([i \in 1..Len(table) |-> table[i].Key])

EdgeTest_Prefix(field, matches) ==
    \E i \in 1..Len(matches) :
        /\ Len(field) <= Len(matches[i])
        /\ SubSeq(matches[i], 1, Len(field)) = field

\* line 903: field in k_field_matches
EdgeTest(field, matches) ==
    \E i \in 1..Len(matches) : matches[i] = field

RECURSIVE EdgesOfKey_NoSelf(_, _, _)
EdgesOfKey_NoSelf(key, matches, fields) ==
    IF fields = <<>> THEN <<>>
    ELSE (IF EdgeTest(Head(fields), matches) /\ Head(fields) # key
          THEN <<[kfield |-> key, components |-> Head(fields)]>>
          ELSE <<>>) \o EdgesOfKey_NoSelf(key, matches, Tail(fields))

\* lines 901-906: the rows appended for one k-field
RECURSIVE EdgesOfKey(_, _, _)
EdgesOfKey(key, matches, fields) ==
    IF fields = <<>> THEN <<>>
    ELSE (IF EdgeTest(Head(fields), matches)
          THEN <<[kfield |-> key, components |-> Head(fields)]>>
          ELSE <<>>) \o EdgesOfKey(key, matches, Tail(fields))

RECURSIVE MatchesThrough(_, _)
MatchesThrough(dict, val) ==
    IF dict = <<>> THEN val
    ELSE MatchesThrough(Tail(dict), val)
            \o (IF EdgeTest(Head(dict).key, val) THEN Head(dict).val
                ELSE <<>>)

RECURSIVE EdgesThrough(_, _, _)
EdgesThrough(all, dict, fields) ==
    IF dict = <<>> THEN <<>>
    ELSE EdgesOfKey(Head(dict).key, MatchesThrough(all, Head(dict).val),
                    fields)
            \o EdgesThrough(all, Tail(dict), fields)

EdgesOfDict_Transitive(dict, fields) == EdgesThrough(dict, dict, fields)

\* lines 898-906
RECURSIVE EdgesOfDict(_, _)
EdgesOfDict(dict, fields) ==
    IF dict = <<>> THEN <<>>
    ELSE EdgesOfKey(Head(dict).key, Head(dict).val, fields)
            \o EdgesOfDict(Tail(dict), fields)

\* lines 852-908: the rows of df_output
parse_k_fields(table, qs, es, as) ==
    [status |-> "returned",
     rows |-> EdgesOfDict(BuildDict(table, <<>>),
                          AllList(table, qs, es, as))]

KInit ==
    /\ k_table = <<>>
    /\ q_keys \in QKeyColumns /\ e_keys \in EKeyColumns
    /\ a_keys \in AKeyColumns
    /\ k_edges = NotCalled /\ k_perm = <<>> /\ k_perm_edges = NotCalled

\* the k-field table as read_k_fields delivers it, row by row
KAppendRow ==
    /\ k_edges = NotCalled
    /\ Len(k_table) < MaxKRows
    /\ \E row \in KRows : k_table' = Append(k_table, row)
    /\ UNCHANGED <<q_keys, e_keys, a_keys, k_edges, k_perm, k_perm_edges,
                   wvars, avars, rvars, uvars, jvars>>

KParse ==
    /\ k_edges = NotCalled
    /\ k_edges' = parse_k_fields(k_table, q_keys, e_keys, a_keys)
    /\ UNCHANGED <<k_table, q_keys, e_keys, a_keys, k_perm, k_perm_edges,
                   wvars, avars, rvars, uvars, jvars>>

\* the same rows in another order, parsed again
KParsePermuted ==
    /\ k_edges # NotCalled
    /\ k_perm_edges = NotCalled
    /\ \E p \in Permutations(1..Len(k_table)) :
         LET t == [i \in 1..Len(k_table) |-> k_table[p[i]]]
         IN  /\ k_perm' = t
             /\ k_perm_edges' = parse_k_fields(t, q_keys, e_keys, a_keys)
    /\ UNCHANGED <<k_table, q_keys, e_keys, a_keys, k_edges, wvars, avars, rvars, uvars, jvars>>

KNext == KAppendRow \/ KParse \/ KParsePermuted

(***************************************************************************)
(* The bulk-file readers and create_export_spec.  A path names nothing, a  *)
(* file the reader can parse, or a file on which the reader's parsing      *)
(* raises.                                                                 *)
(***************************************************************************)
\* lines 84-90: the paths create_export_spec assigns over its parameters
HardQPath == "tms_Q-Fields_Q-Field Details_bulk.txt"
HardEPath == "tms_E-Fields.txt"
HardKPath == "tms_K-Fields_K-Field Details_bulk.txt"
HardAltPath == "tms_Alt Sets.txt"
HardExportPath == "tms_Exports_Export Details_bulk.txt"
HardXmlPath == "/Users/kjohnson/Documents/Projects/TMNA/2018_01_16_Survey_XML_Parser/TMNA_PLS.xml"
HardExportName == "ECSC Daily File - PLS (with survey data flag)"

\* a path of the caller's own
CallerPath == "Documents/caller_file.txt"

Paths == {HardQPath, HardEPath, HardKPath, HardAltPath, HardExportPath,
          HardXmlPath, CallerPath}
FileStates == {"missing", "parses", "malformed"}

Readers == {"read_q_fields", "read_e_fields", "read_a_fields",
            "read_k_fields", "read_alt_sets", "read_exports",
            "create_survey_spec"}

IsFile_Always(files, path) == TRUE

\* os.path.isfile(path): lines 193, 250, 303, 359, 429, 690, 988
IsFile(files, path) == files[path] # "missing"

\* the 'else' branch of each reader: lines 216, 270, 323, 389, 502, 732, 1142
PathDiagnostic(reader) ==
    CASE reader = "read_q_fields" ->
           "please check the q-field text file path, it appears to be invalid"
      [] reader = "read_e_fields" ->
           "please check the e-field file path, it appears to be invalid"
      [] reader = "read_a_fields" ->
           "please check the a-field file path, it appears to be invalid"
      [] reader = "read_k_fields" ->
           "please check the k-fields file path, it appears to be invalid"
      [] reader = "read_alt_sets" ->
           "please check the alt-sets file path, it appears to be invalid"
      [] reader = "read_exports" ->
           "please check the exports text file path, it appears to be invalid"
      [] reader = "create_survey_spec" ->
           "please check the xml file path, it appears to be invalid"

\* the 'except' branch of each reader: lines 213, 267, 320, 386, 499, 729, 1138
ErrorDiagnostic(reader) ==
    CASE reader = "read_q_fields" ->
           "error occurred while reading in the q-field text file"
      [] reader = "read_e_fields" ->
           "error occurred while reading in the e-field text file"
      [] reader = "read_a_fields" ->
           "error occurred while reading in the a-field text file"
      [] reader = "read_k_fields" ->
           "error occurred while reading in the k-fields text file"
      [] reader = "read_alt_sets" ->
           "error occurred while reading in the alt-sets text file"
      [] reader = "read_exports" ->
           "error occurred while reading in the exports text file"
      [] reader = "create_survey_spec" ->
           "error occurred while parsing XML"

\* one reader call: isfile, then the guarded read (lines 193-217, 250-271,
\* 303-324, 359-390, 429-503, 690-733).  'opened' lists the paths handed to
\* open / read_csv / iterparse; nothing raised inside the try leaves the
\* function.
ReadFile(reader, files, path) ==
    IF ~IsFile(files, path)
    THEN [ret |-> "None", printed |-> <<PathDiagnostic(reader)>>,
          opened |-> {}, raised |-> FALSE]
    ELSE IF files[path] = "parses"
    THEN [ret |-> "DataFrame", printed |-> <<>>, opened |-> {path},
          raised |-> FALSE]
    ELSE [ret |-> "None", printed |-> <<ErrorDiagnostic(reader)>>,
          opened |-> {path}, raised |-> FALSE]

\* lines 988-1143: the XML is read first; the q-field file is read by
\* read_q_fields (line 1112), whose None makes line 1113 raise inside the try
create_survey_spec(files, xml_path, q_path) ==
    LET x == ReadFile("create_survey_spec", files, xml_path)
        q == ReadFile("read_q_fields", files, q_path)
    IN  IF x.ret = "None" THEN x
        ELSE IF q.ret = "None"
        THEN [ret |-> "None",
              printed |-> q.printed
                            \o <<ErrorDiagnostic("create_survey_spec")>>,
              opened |-> x.opened \cup q.opened, raised |-> FALSE]
        ELSE [ret |-> "DataFrame", printed |-> <<>>,
              opened |-> x.opened \cup q.opened, raised |-> FALSE]

Reader(reader, files, path, q_path) ==
    IF reader = "create_survey_spec"
    THEN create_survey_spec(files, path, q_path)
    ELSE ReadFile(reader, files, path)

\* lines 84-90: the values the parameters hold once the try block has
\* assigned over them, whatever the caller passed
AssignedInputs(args) ==
    [q_path |-> HardQPath, e_path |-> HardEPath, k_path |-> HardKPath,
     alt_set_path |-> HardAltPath, export_path |-> HardExportPath,
     export_name |-> HardExportName, survey_xml_path |-> HardXmlPath]

\* lines 82-160.  The parameters are overwritten (84-91); the five readers
\* return None rather than raise, so the except of line 99 is not entered;
\* the first statement that subscripts or takes an attribute of a None
\* raises outside every try.
create_export_spec(files, args) ==
    LET in        == AssignedInputs(args)
        df_q      == ReadFile("read_q_fields", files, in.q_path)
        df_e      == ReadFile("read_e_fields", files, in.e_path)
        df_k      == ReadFile("read_k_fields", files, in.k_path)
        df_alt    == ReadFile("read_alt_sets", files, in.alt_set_path)
        df_export == ReadFile("read_exports", files, in.export_path)
        printed1  == df_q.printed \o df_e.printed \o df_k.printed
                        \o df_alt.printed \o df_export.printed
        opened1   == df_q.opened \cup df_e.opened \cup df_k.opened
                        \cup df_alt.opened \cup df_export.opened
        survey    == create_survey_spec(files, in.survey_xml_path, in.q_path)
        organized == "and error occured while organizing the alt-set data"
        Raise(line, exc, printed, opened) ==
            [ret |-> "nothing", raised |-> TRUE, exception |-> exc,
             line |-> line, printed |-> printed, opened |-> opened,
             absent |-> {}, inputs |-> in]
        done ==
            IF df_q.ret = "None"
            THEN Raise(104, "TypeError", printed1, opened1)
            ELSE IF df_e.ret = "None"
            THEN Raise(108, "TypeError", printed1, opened1)
            ELSE IF df_k.ret = "None"
            THEN Raise(112, "TypeError", printed1, opened1)
            ELSE IF df_export.ret = "None"
            THEN Raise(123, "AttributeError", printed1, opened1)
            ELSE IF df_alt.ret = "None"
            THEN Raise(130, "TypeError", Append(printed1, organized),
                       opened1)
            ELSE IF survey.ret = "None"
            THEN Raise(137, "TypeError", printed1 \o survey.printed,
                       opened1 \cup survey.opened)
            ELSE [ret |-> "DataFrame", raised |-> FALSE,
                  exception |-> "none", line |-> 160,
                  printed |-> printed1,
                  opened |-> opened1 \cup survey.opened, absent |-> {},
                  inputs |-> in]
    IN  [done EXCEPT !.absent =
            {r \in {"read_q_fields", "read_e_fields", "read_k_fields",
                    "read_alt_sets", "read_exports"} :
                 \/ r = "read_q_fields" /\ df_q.ret = "None"
                 \/ r = "read_e_fields" /\ df_e.ret = "None"
                 \/ r = "read_k_fields" /\ df_k.ret = "None"
                 \/ r = "read_alt_sets" /\ df_alt.ret = "None"
                 \/ r = "read_exports" /\ df_export.ret = "None"}]

NoCall == [reader |-> "none"]

ReadInit ==
    /\ fs \in [Paths -> FileStates]
    /\ read_call = NoCall
    /\ export_call = NoCall
    /\ exports_file = <<>> /\ exports_read = NoCall
    /\ alt_file = <<>> /\ alt_read = NoCall

\* a caller calls one of the readers
ReaderCall ==
    /\ read_call = NoCall
    /\ \E reader \in Readers, path \in Paths, q_path \in {HardQPath, CallerPath} :
         read_call' = [reader |-> reader, path |-> path, q_path |-> q_path,
                       result |-> Reader(reader, fs, path, q_path)]
    /\ UNCHANGED <<fs, export_call, exports_file, exports_read, alt_file,
                   alt_read, wvars, avars, kvars, uvars, jvars>>

\* the export names of the caller's exports file
ExportNames == {HardExportName, "Toyota PLS Export"}

\* the arguments of the calls explored: the paths and name of lines 84-90,
\* the same with one argument replaced by the caller's own, and the
\* caller's own throughout
ExportArgs ==
    LET same == [q_path |-> HardQPath, e_path |-> HardEPath,
                 k_path |-> HardKPath, alt_set_path |-> HardAltPath,
                 export_path |-> HardExportPath,
                 export_name |-> HardExportName,
                 survey_xml_path |-> HardXmlPath]
    IN  {same}
        \cup {[same EXCEPT ![f] = CallerPath] :
                 f \in {"q_path", "e_path", "k_path", "alt_set_path",
                        "export_path", "survey_xml_path"}}
        \cup {[same EXCEPT !.export_name = n] : n \in ExportNames}
        \cup {[q_path |-> CallerPath, e_path |-> CallerPath,
                k_path |-> CallerPath, alt_set_path |-> CallerPath,
                export_path |-> CallerPath, export_name |-> n,
                survey_xml_path |-> CallerPath] : n \in ExportNames}

\* a caller calls create_export_spec
ExportSpecCall ==
    /\ export_call = NoCall
    /\ \E args \in ExportArgs :
         export_call' = [reader |-> "create_export_spec", args |-> args,
                         result |-> create_export_spec(fs, args)]
    /\ UNCHANGED <<fs, read_call, exports_file, exports_read, alt_file,
                   alt_read, wvars, avars, kvars, uvars, jvars>>

(***************************************************************************)
(* read_exports and read_alt_sets on the text of a file that exists.  A    *)
(* line is the sequence of its tab-separated cells, a cell a sequence of   *)
(* characters; the marker texts are one piece each; the last cell of a     *)
(* line ends with the newline.                                             *)
(***************************************************************************)
NL == "\n"
EpisodeMarker == "%%EpisodeCondition"
AlternativeMarker == "%%AlternativeDb"

\* str.strip('\n')
RECURSIVE StripNewline(_)
StripNewline(str) ==
    IF str = <<>> THEN str
    ELSE IF Head(str) = NL THEN StripNewline(Tail(str))
    ELSE IF str[Len(str)] = NL
    THEN StripNewline(SubSeq(str, 1, Len(str) - 1))
    ELSE str

\* lines 705-707 and 476-478: strip(' ') of every cell, then strip('\n')
TrimmedValues(line) ==
    [k \in 1..Len(line) |-> StripNewline(Strip(line[k]))]

\* 'text in line'
Contains(line, text) ==
    \E k \in 1..Len(line) : \E n \in 1..Len(line[k]) : line[k][n] = text

\* str.split(' : '): 'cur' is the piece being read
RECURSIVE SplitFields(_, _)
SplitFields(str, cur) ==
    IF str = <<>> THEN <<cur>>
    ELSE IF Len(str) >= 3 /\ SubSeq(str, 1, 3) = <<" ", ":", " ">>
    THEN <<cur>> \o SplitFields(SubSeq(str, 4, Len(str)), <<>>)
    ELSE SplitFields(Tail(str), Append(cur, Head(str)))

\* line 716: filter(None, ...) drops the empty strings
FilterNone(list) == SelectSeq(list, LAMBDA x : x # <<>>)

\* the export names and cells of the files explored
PLS == <<"P", "L", "S">>
PLS_padded == <<" ", "P", "L", "S", " ">>
PLS2 == <<"P", "L", "S", "2">>
ExportNumber == <<"7">>
FieldsCell17 ==
    { <<>>,
      <<"q", "_", "5", " ", ":", " ", " ", ":", " ", "q", "_", "6">> }
FieldsCell18 == { <<"e", "_", "1", " ", ":", " ", NL>> }

\* a line of the exports file with all 19 cells
ExportLine(number, name, c17, c18) ==
    <<number, name>> \o [k \in 1..15 |-> <<>>] \o <<c17, c18>>

ExportsFileLines ==
    { ExportLine(ExportNumber, name, c17, c18) :
        name \in {PLS, PLS_padded, PLS2},
        c17 \in FieldsCell17, c18 \in FieldsCell18 }
    \cup { << <<EpisodeMarker, NL>> >>,      \* the stopping line
           << <<NL>> >> }                    \* an empty line: a single cell

\* lines 693-699: the lines before the first one that holds the marker
RECURSIVE LinesBeforeMarker(_)
LinesBeforeMarker(lines) ==
    IF lines = <<>> \/ Contains(Head(lines), EpisodeMarker) THEN <<>>
    ELSE <<Head(lines)>> \o LinesBeforeMarker(Tail(lines))

NameMatches_Prefix(cell, export_name) ==
    /\ Len(export_name) <= Len(cell)
    /\ SubSeq(cell, 1, Len(export_name)) = export_name

\* line 710
NameMatches(cell, export_name) == cell = export_name

\* lines 714-724: the dataframe built from a matching line; the column
\* number is the text of n, kept as n
ExportRows(trimmed_values) ==
    LET split_fields ==
            FilterNone(SplitFields(trimmed_values[18], <<>>)
                        \o SplitFields(trimmed_values[19], <<>>))
    IN  [n \in 1..Len(split_fields) |->
            [Column_Number |-> n, Export_Number |-> trimmed_values[1],
             Export_Name |-> trimmed_values[2],
             Export_Fields |-> split_fields[n]]]

\* lines 702-724 from line i on; df is [bound, rows], the local df_exports.
\* The result carries 'raised' when a subscript is out of range.
RECURSIVE ExportsLoop(_, _, _, _)
ExportsLoop(lines, i, export_name, df) ==
    IF i > Len(lines) THEN [raised |-> FALSE, df |-> df]
    ELSE LET trimmed_values == TrimmedValues(lines[i])
         IN  IF Len(trimmed_values) < 2
             THEN [raised |-> TRUE, df |-> df]
             ELSE IF ~NameMatches(trimmed_values[2], export_name)
             THEN ExportsLoop(lines, i + 1, export_name, df)
             ELSE IF Len(trimmed_values) < 19
             THEN [raised |-> TRUE, df |-> df]
             ELSE ExportsLoop(lines, i + 1, export_name,
                     [bound |-> TRUE, rows |-> ExportRows(trimmed_values)])

\* lines 690-730 on an existing file: 'return df_exports' raises
\* UnboundLocalError when no line matched; whatever is raised is caught at
\* line 728
read_exports(lines, export_name) ==
    LET res == ExportsLoop(LinesBeforeMarker(lines), 3, export_name,
                           [bound |-> FALSE, rows |-> <<>>])
    IN  IF res.raised \/ ~res.df.bound
        THEN [status |-> "None", rows |-> <<>>,
              printed |-> <<ErrorDiagnostic("read_exports")>>]
        ELSE [status |-> "returned", rows |-> res.df.rows,
              printed |-> <<>>]

\* the exports file as it was written, line by line
ExportsAppendLine ==
    /\ exports_read = NoCall
    /\ Len(exports_file) < MaxExportLines
    /\ \E line \in ExportsFileLines :
         exports_file' = Append(exports_file, line)
    /\ UNCHANGED <<fs, read_call, export_call, exports_read, alt_file,
                   alt_read, wvars, avars, kvars, uvars, jvars>>

ReadExportsCall ==
    /\ exports_read = NoCall
    /\ \E export_name \in {PLS, PLS2} :
         exports_read' = [reader |-> "read_exports",
                          export_name |-> export_name,
                          result |-> read_exports(exports_file, export_name)]
    /\ UNCHANGED <<fs, read_call, export_call, exports_file, alt_file,
                   alt_read, wvars, avars, kvars, uvars, jvars>>

ReadExportsNext == ExportsAppendLine \/ ReadExportsCall

\* lines 435-453: len(alt_set_headers)
NumAltSetHeaders == 19

\* a line of the alt-sets file with n cells, the first one given
AltLine(first, n) ==
    IF n = 1 THEN <<first \o <<NL>>>>
    ELSE <<first>> \o [k \in 1..(n - 2) |-> <<"c">>] \o <<<<"c", NL>>>>

\* the lines of the files explored: the marker line, a line with the 18
\* cells of the bulk download, one with 3 cells, an empty one, and one
\* with a cell too many
AltFileLines ==
    { << <<AlternativeMarker, NL>> >>,
      AltLine(<<"1", "2", "_", "3">>, NumAltSetHeaders - 1),
      AltLine(<<" ", "7", "_", "1">>, 3),
      << <<NL>> >>,
      AltLine(<<"1", "2", "_", "3">>, NumAltSetHeaders) }

\* lines 459-464: the lines after the first one that holds the marker
RECURSIVE LinesAfterMarker(_, _)
LinesAfterMarker(lines, flag) ==
    IF lines = <<>> THEN <<>>
    ELSE (IF flag THEN <<Head(lines)>> ELSE <<>>)
            \o LinesAfterMarker(Tail(lines),
                    flag \/ Contains(Head(lines), AlternativeMarker))

\* line 481: str.split('_')[0]
RECURSIVE BeforeUnderscore(_)
BeforeUnderscore(str) ==
    IF str = <<>> \/ Head(str) = "_" THEN <<>>
    ELSE <<Head(str)>> \o BeforeUnderscore(Tail(str))

PadWithNA_Never(values) == values

\* lines 485-487
PadWithNA(values) ==
    IF Len(values) < NumAltSetHeaders
    THEN values \o [k \in 1..(NumAltSetHeaders - Len(values)) |->
                       <<"N", "A">>]
    ELSE values

\* lines 476-487: the values of the row made from one line
AltSetRow(line) ==
    LET trimmed_values == TrimmedValues(line)
        alt_set_num    == BeforeUnderscore(trimmed_values[1])
    IN  PadWithNA(<<alt_set_num>> \o trimmed_values)

\* lines 473-493; pd.DataFrame(data=[values], columns=alt_set_headers)
\* raises when the number of values is not the number of columns
RECURSIVE AltSetsLoop(_, _)
AltSetsLoop(line_list, df_alt_set) ==
    IF line_list = <<>> THEN [raised |-> FALSE, rows |-> df_alt_set]
    ELSE LET row == AltSetRow(Head(line_list))
         IN  IF Len(row) # NumAltSetHeaders
             THEN [raised |-> TRUE, rows |-> df_alt_set]
             ELSE AltSetsLoop(Tail(line_list), Append(df_alt_set, row))

\* lines 429-500 on an existing file: line_list.pop(0) raises IndexError
\* when no line follows the marker; whatever is raised is caught at line 498
read_alt_sets(lines) ==
    LET line_list == LinesAfterMarker(lines, FALSE)
        res       == AltSetsLoop(Tail(line_list), <<>>)
    IN  IF line_list = <<>> \/ res.raised
        THEN [status |-> "None", rows |-> <<>>,
              printed |-> <<ErrorDiagnostic("read_alt_sets")>>]
        ELSE [status |-> "returned", rows |-> res.rows, printed |-> <<>>]

\* the alt-sets file as it was written, line by line
AltFileAppendLine ==
    /\ alt_read = NoCall
    /\ Len(alt_file) < MaxAltLines
    /\ \E line \in AltFileLines : alt_file' = Append(alt_file, line)
    /\ UNCHANGED <<fs, read_call, export_call, exports_file, exports_read,
                   alt_read, wvars, avars, kvars, uvars, jvars>>

ReadAltSetsCall ==
    /\ alt_read = NoCall
    /\ alt_read' = [reader |-> "read_alt_sets",
                    result |-> read_alt_sets(alt_file)]
    /\ UNCHANGED <<fs, read_call, export_call, exports_file, exports_read,
                   alt_file, wvars, avars, kvars, uvars, jvars>>

ReadAltSetsNext == AltFileAppendLine \/ ReadAltSetsCall

(***************************************************************************)
(* response-update.py: one PUT per row of the input file, survey by survey. *)
(* A row is a function from column names to cell texts; NaN is an empty    *)
(* cell of read_csv.                                                       *)
(***************************************************************************)
MaxUpdateRows == 2

excluded_cols == {"SurveyId", "ResponseId"}

\* the header lines of the input files considered
ColumnSets == {{"SurveyId", "ResponseId", "Q1"},
               {"SurveyId", "ResponseId", "Q1", "Q2"}}
SurveyIdCells == {"SV_1", "SV_2", NaN}
EdCells == {"a", NaN}
ResponseIdOf(i) == CASE i = 1 -> "R_1" [] i = 2 -> "R_2" [] OTHER -> "R_3"

InputRow(cols, i, sid, ed) ==
    [c \in cols |-> CASE c = "SurveyId"   -> sid
                      [] c = "ResponseId" -> ResponseIdOf(i)
                      [] OTHER            -> ed[c]]

NoFields == [c \in {} |-> NaN]

\* df[df['SurveyId'] == survey_id]: NaN equals nothing, itself included
RowsOfSurvey(table, sid) ==
    SelectSeq([i \in 1..Len(table) |-> i],
              LAMBDA i : sid # NaN /\ table[i]["SurveyId"] = sid)

\* for col in col_list: ed_fields[col] = row[col], on the one dictionary
FillEdFields_SkipNull(ed, row, cols) ==
    [c \in (DOMAIN ed) \cup {k \in cols : row[k] # NaN} |->
        IF c \in cols /\ row[c] # NaN THEN row[c] ELSE ed[c]]

FillEdFields(ed, row, cols) ==
    [c \in (DOMAIN ed) \cup cols |-> IF c \in cols THEN row[c] ELSE ed[c]]

\* how a call of make_update can end: a response with a status code, or an
\* exception raised by requests.put or json.dumps
Outcomes == {"200", "404", "raise"}

\* the result dictionary of make_update; of 'Detail' the model keeps its
\* leading words
make_update(outcome) ==
    CASE outcome = "200" -> [Detail |-> "Status: 200", HTTPStatus |-> "Status: 200"]
      [] outcome = "404" -> [Detail |-> "Status: 404", HTTPStatus |-> "Status: 404"]
      [] OTHER           -> [Detail |-> "Error", HTTPStatus |-> "Function Error"]

\* df.at[index, col] = value: a column the table lacks is added, empty in
\* the other rows
At(table, index, col, value) ==
    [j \in 1..Len(table) |->
        [c \in (DOMAIN table[j]) \cup {col} |->
            IF j = index /\ c = col THEN value
            ELSE IF c \in DOMAIN table[j] THEN table[j][c] ELSE NaN]]

\* the rows left to the inner loop once make_update has returned
AfterResult_RetryOnError(outcome, rows) ==
    IF outcome = "200" THEN Tail(rows) ELSE rows

AfterResult(outcome, rows) == Tail(rows)

UpdateInit ==
    /\ upd_pc = "start" /\ df_input = <<>> /\ survey_ids = {} /\ col_list = {}
    /\ count = 0 /\ ed_fields = NoFields /\ survey_id = NaN
    /\ rows_to_update = <<>> /\ requests = <<>> /\ responses = <<>>

ReadInput ==
    /\ upd_pc = "start"
    /\ \E cols \in ColumnSets, n \in 0..MaxUpdateRows :
         \E sids \in [1..n -> SurveyIdCells],
            eds \in [1..n -> [cols \ excluded_cols -> EdCells]] :
            /\ df_input' = [i \in 1..n |-> InputRow(cols, i, sids[i], eds[i])]
            /\ survey_ids' = {sids[i] : i \in 1..n}
            /\ col_list' = cols \ excluded_cols
    /\ count' = 0
    /\ ed_fields' = NoFields
    /\ upd_pc' = "surveys"
    /\ UNCHANGED <<survey_id, rows_to_update, requests, responses>>
    /\ UNCHANGED <<wvars, avars, kvars, rvars, jvars>>

NextSurvey ==
    /\ upd_pc = "surveys"
    /\ \E sid \in survey_ids :
         /\ survey_id' = sid
         /\ survey_ids' = survey_ids \ {sid}
         /\ rows_to_update' = RowsOfSurvey(df_input, sid)
    /\ upd_pc' = IF rows_to_update' = <<>> THEN "surveys" ELSE "rows"
    /\ UNCHANGED <<df_input, col_list, count, ed_fields, requests,
                   responses>>
    /\ UNCHANGED <<wvars, avars, kvars, rvars, jvars>>

SendUpdate ==
    /\ upd_pc = "rows"
    /\ LET index == Head(rows_to_update)
       IN  /\ count' = count + 1
           /\ ed_fields' =
                 FillEdFields(ed_fields, df_input[index], col_list)
           /\ requests' = Append(requests,
                                 [row          |-> index,
                                  response_id  |->
                                      df_input[index]["ResponseId"],
                                  surveyId     |-> survey_id,
                                  embeddedData |-> ed_fields'])
    /\ upd_pc' = "waiting"
    /\ UNCHANGED <<df_input, survey_ids, col_list, survey_id, rows_to_update,
                   responses>>
    /\ UNCHANGED <<wvars, avars, kvars, rvars, jvars>>

ReceiveResponse ==
    /\ upd_pc = "waiting"
    /\ \E outcome \in Outcomes :
         LET index  == Head(rows_to_update)
             result == make_update(outcome)
         IN  /\ df_input' = At(At(df_input, index, "Result Detail",
                                  result.Detail),
                               index, "HTTP Status", result.HTTPStatus)
             /\ responses' = Append(responses,
                                    [row |-> index, outcome |-> outcome])
             /\ rows_to_update' = AfterResult(outcome, rows_to_update)
    /\ upd_pc' = IF rows_to_update' = <<>> THEN "surveys" ELSE "rows"
    /\ UNCHANGED <<survey_ids, col_list, count, ed_fields, survey_id,
                   requests>>
    /\ UNCHANGED <<wvars, avars, kvars, rvars, jvars>>

WriteReport ==
    /\ upd_pc = "surveys"
    /\ survey_ids = {}
    /\ upd_pc' = "done"
    /\ UNCHANGED <<df_input, survey_ids, col_list, count, ed_fields, survey_id,
                   rows_to_update, requests, responses>>
    /\ UNCHANGED <<wvars, avars, kvars, rvars, jvars>>

UpdateNext ==
    ReadInput \/ NextSurvey \/ SendUpdate \/ ReceiveResponse \/ WriteReport

(***************************************************************************)
(* create_export_spec, lines 116-160: the joins, on reader results that    *)
(* are dataframes.  A text cell is a sequence of characters (of items, for *)
(* the organizer's labels and values); Missing is the NaN pandas puts in a *)
(* cell no row matched; a number is Num(n) or NumNaN.                      *)
(***************************************************************************)
MaxJoinRows == 2

Missing == <<NaN>>
NAText == <<"N", "A">>
NumNaN == [nan |-> TRUE, n |-> 0]
Num(n) == [nan |-> FALSE, n |-> n]

\* Series.str.strip(): the whitespace at both ends removed
RECURSIVE StrStrip(_)
StrStrip(str) ==
    IF str = <<>> THEN str
    ELSE IF Head(str) \in {" ", NL, "\t"} THEN StrStrip(Tail(str))
    ELSE IF str[Len(str)] \in {" ", NL, "\t"}
         THEN StrStrip(SubSeq(str, 1, Len(str) - 1))
    ELSE str

\* the field references read_exports can return: cell 17 'q_5  : e_1' splits
\* on ' : ' into 'q_5 ' and 'e_1'
ExportFieldsCells == {q_5, q_5_padded, e_1}

\* the field rows: key, name and alternative set of a q- or e-field
FieldName(key) == IF key = q_5 THEN <<"Q", "5">> ELSE <<"E", "1">>
FieldRows ==
    { [Key |-> key, Name |-> FieldName(key), AlternativeSet |-> set] :
        key \in {q_5, e_1}, set \in {Num(1), NumNaN} }

\* rows of organize_alt_sets: set 1, a set read from a line whose first cell
\* is empty, and a set whose number is not a numeral
OrganizedRows ==
    { [alt_set_name |-> <<"YesNo">>, alt_set_number |-> <<"1">>,
       alt_set_labels |-> <<"Y", "; ", "N">>,
       alt_set_values |-> <<"1", "; ", "2">>],
      [alt_set_name |-> <<"Scale">>, alt_set_number |-> <<>>,
       alt_set_labels |-> <<"Low">>, alt_set_values |-> <<"1">>],
      [alt_set_name |-> <<"Odd">>, alt_set_number |-> <<"x">>,
       alt_set_labels |-> <<"A">>, alt_set_values |-> <<"A">>] }

\* rows of create_survey_spec, cut to field and survey_question_text
SurveyRows ==
    { [field |-> q_5, survey_question_text |-> <<"How was it?">>],
      [field |-> NAText, survey_question_text |-> NAText] }

\* line 130: pd.to_numeric raises ValueError on text that is no number and
\* turns the empty text into NaN
ToNumericRaises(text) == text \notin {<<>>, <<"1">>, <<"2">>}
to_numeric(text) ==
    CASE text = <<"1">> -> Num(1)
      [] text = <<"2">> -> Num(2)
      [] OTHER          -> NumNaN

RECURSIVE Flatten(_)
Flatten(seqs) ==
    IF seqs = <<>> THEN <<>> ELSE Head(seqs) \o Flatten(Tail(seqs))

\* lines 122-123 on df_export and df_combined: every text column stripped
StripExport(rows) ==
    [i \in 1..Len(rows) |->
        [rows[i] EXCEPT !.ExportNumber = StrStrip(@),
                        !.ExportName = StrStrip(@),
                        !.ExportFields = StrStrip(@)]]

StripFields(rows) ==
    [i \in 1..Len(rows) |->
        [rows[i] EXCEPT !.Key = StrStrip(@), !.Name = StrStrip(@)]]

\* line 126: pd.merge(how='left', left_on 'Export Fields', right_on '# Key')
FieldJoin(exports, fields) ==
    Flatten([i \in 1..Len(exports) |->
        LET m == SelectSeq(fields,
                           LAMBDA f : f.Key = exports[i].ExportFields)
        IN  IF m = <<>>
            THEN << [export |-> exports[i], Key |-> Missing,
                     Name |-> Missing, AlternativeSet |-> NumNaN] >>
            ELSE [k \in 1..Len(m) |->
                     [export |-> exports[i], Key |-> m[k].Key,
                      Name |-> m[k].Name,
                      AlternativeSet |-> m[k].AlternativeSet]]])

\* line 133: left_on 'AlternativeSet', right_on 'alt_set_number'; pandas
\* matches a NaN key with a NaN key
AltSetJoin(rows, alts) ==
    Flatten([i \in 1..Len(rows) |->
        LET m == SelectSeq(alts,
                           LAMBDA a : a.alt_set_number =
                                         rows[i].AlternativeSet)
        IN  IF m = <<>>
            THEN << [joined |-> rows[i], alt_set_name |-> Missing,
                     alt_set_labels |-> Missing,
                     alt_set_values |-> Missing] >>
            ELSE [k \in 1..Len(m) |->
                     [joined |-> rows[i],
                      alt_set_name |-> m[k].alt_set_name,
                      alt_set_labels |-> m[k].alt_set_labels,
                      alt_set_values |-> m[k].alt_set_values]]])

\* lines 137-143: the survey rows renamed to '# Key', joined on '# Key'
SurveyJoin(rows, survey) ==
    Flatten([i \in 1..Len(rows) |->
        LET m == SelectSeq(survey,
                           LAMBDA sv : sv.field = rows[i].joined.Key)
        IN  IF m = <<>>
            THEN << [merged |-> rows[i],
                     survey_question_text |-> Missing] >>
            ELSE [k \in 1..Len(m) |->
                     [merged |-> rows[i],
                      survey_question_text |->
                          m[k].survey_question_text]]])

\* line 144
FillNaText(cell) == IF cell = Missing THEN NAText ELSE cell

\* lines 147-158: the columns kept, two of them renamed
ExportSpecRow(r) ==
    [ColumnNumber |-> r.merged.joined.export.ColumnNumber,
     ExportNumber |-> FillNaText(r.merged.joined.export.ExportNumber),
     ExportName |-> FillNaText(r.merged.joined.export.ExportName),
     SurveyQuestionText |-> FillNaText(r.survey_question_text),
     FieldName |-> FillNaText(r.merged.joined.Name),
     ExportFields |-> FillNaText(r.merged.joined.export.ExportFields),
     alt_set_name |-> FillNaText(r.merged.alt_set_name),
     alt_set_labels |-> FillNaText(r.merged.alt_set_labels),
     alt_set_values |-> FillNaText(r.merged.alt_set_values)]

\* lines 116-160
df_export_spec(exports, fields, alts, survey) ==
    IF \E i \in 1..Len(alts) : ToNumericRaises(alts[i].alt_set_number)
    THEN [status |-> "raised", line |-> 130, rows |-> <<>>]
    ELSE LET numbered == [i \in 1..Len(alts) |->
                             [alts[i] EXCEPT !.alt_set_number =
                                                 to_numeric(@)]]
             df_joined == FieldJoin(StripExport(exports),
                                    StripFields(fields))
             df_alt_set_joined == AltSetJoin(df_joined, numbered)
             df_merged == SurveyJoin(df_alt_set_joined, survey)
         IN  [status |-> "returned", line |-> 160,
              rows |-> [i \in 1..Len(df_merged) |->
                           ExportSpecRow(df_merged[i])]]

JoinInit ==
    /\ join_export = <<>> /\ join_fields = <<>> /\ join_alt_sets = <<>>
    /\ join_survey = <<>> /\ join_result = NoCall

\* read_exports numbers its rows from 1 (line 720)
JoinAppendExport ==
    /\ join_result = NoCall
    /\ Len(join_export) < MaxJoinRows
    /\ \E cell \in ExportFieldsCells :
         join_export' = Append(join_export,
                               [ColumnNumber |-> Len(join_export) + 1,
                                ExportNumber |-> ExportNumber,
                                ExportName |-> PLS,
                                ExportFields |-> cell])
    /\ UNCHANGED <<join_fields, join_alt_sets, join_survey, join_result>>
    /\ UNCHANGED <<wvars, avars, kvars, rvars, uvars>>

JoinAppendField ==
    /\ join_result = NoCall
    /\ Len(join_fields) < MaxJoinRows
    /\ \E row \in FieldRows : join_fields' = Append(join_fields, row)
    /\ UNCHANGED <<join_export, join_alt_sets, join_survey, join_result>>
    /\ UNCHANGED <<wvars, avars, kvars, rvars, uvars>>

JoinAppendAltSet ==
    /\ join_result = NoCall
    /\ Len(join_alt_sets) < MaxJoinRows
    /\ \E row \in OrganizedRows :
         /\ \A i \in 1..Len(join_alt_sets) :
               join_alt_sets[i].alt_set_name # row.alt_set_name
         /\ join_alt_sets' = Append(join_alt_sets, row)
    /\ UNCHANGED <<join_export, join_fields, join_survey, join_result>>
    /\ UNCHANGED <<wvars, avars, kvars, rvars, uvars>>

JoinAppendSurvey ==
    /\ join_result = NoCall
    /\ Len(join_survey) < MaxJoinRows
    /\ \E row \in SurveyRows : join_survey' = Append(join_survey, row)
    /\ UNCHANGED <<join_export, join_fields, join_alt_sets, join_result>>
    /\ UNCHANGED <<wvars, avars, kvars, rvars, uvars>>

JoinCall ==
    /\ join_result = NoCall
    /\ join_export # <<>>
    /\ join_result' = [reader |-> "create_export_spec",
                       result |-> df_export_spec(join_export, join_fields,
                                                 join_alt_sets, join_survey)]
    /\ UNCHANGED <<join_export, join_fields, join_alt_sets, join_survey>>
    /\ UNCHANGED <<wvars, avars, kvars, rvars, uvars>>

JoinNext ==
    \/ JoinAppendExport \/ JoinAppendField \/ JoinAppendAltSet
    \/ JoinAppendSurvey \/ JoinCall

(***************************************************************************)
(* Specifications, one per component.                                      *)
(***************************************************************************)
\* everything outside the component under study is at rest
NoFiles == /\ fs = [p \in Paths |-> "missing"]
           /\ read_call = NoCall /\ export_call = NoCall
           /\ exports_file = <<>> /\ exports_read = NoCall
           /\ alt_file = <<>> /\ alt_read = NoCall
NoKTable == /\ KInit /\ q_keys = <<q_5, q_6, q_7>> /\ e_keys = <<>>

InitWalk == WalkInit /\ AltInit /\ NoKTable /\ NoFiles /\ UpdateInit
    /\ JoinInit
InitAlt == WalkInit /\ AltInit /\ NoKTable /\ NoFiles /\ UpdateInit
    /\ JoinInit
InitK == WalkInit /\ AltInit /\ KInit /\ NoFiles /\ UpdateInit
    /\ JoinInit
InitRead == WalkInit /\ AltInit /\ NoKTable /\ ReadInit /\ UpdateInit
    /\ JoinInit

SpecWalk == InitWalk /\ [][WalkNext]_vars

SpecAlt == InitAlt /\ [][AltNext]_vars

SpecK == InitK /\ [][KNext]_vars

SpecRead == InitRead /\ [][ReaderCall]_vars

SpecExport == InitRead /\ [][ExportSpecCall]_vars

InitReadExports == WalkInit /\ AltInit /\ NoKTable /\ NoFiles /\ UpdateInit
    /\ JoinInit

SpecReadExports == InitReadExports /\ [][ReadExportsNext]_vars

InitReadAltSets == WalkInit /\ AltInit /\ NoKTable /\ NoFiles /\ UpdateInit
    /\ JoinInit

SpecReadAltSets == InitReadAltSets /\ [][ReadAltSetsNext]_vars

InitUpdate == WalkInit /\ AltInit /\ NoKTable /\ NoFiles /\ UpdateInit
    /\ JoinInit

SpecUpdate == InitUpdate /\ [][UpdateNext]_vars

InitJoin == WalkInit /\ AltInit /\ NoKTable /\ NoFiles /\ UpdateInit
    /\ JoinInit

SpecJoin == InitJoin /\ [][JoinNext]_vars

(***************************************************************************)
(* Claims about the survey walker.                                         *)
(***************************************************************************)
\* C1: in the traversal exactly one record is emitted per element start
\* event and none per end event: the number of records equals the number of
\* start events delivered, and the i-th record carries xml_node_number i-1.
C1_OneRecordPerStartEvent ==
    /\ Len(output) = starts
    /\ \A i \in 1..Len(output) : output[i].xml_node_number = i - 1

PageBefore(i) == IF i = 1 THEN 1 ELSE output[i - 1].survey_page_number

\* C2: the survey_page_number of every emitted record is 1 plus the number
\* of PAGE_BREAK start events up to and including its own: the first page
\* is 1, a PAGE_BREAK record is one page after the record before it, any
\* other record is on the page of the record before it (whatever end events
\* lie between them), and page_num is the page of the last record.
C2_PageNumberCountsPageBreaks ==
    /\ \A i \in 1..Len(output) :
         output[i].survey_page_number =
            PageBefore(i) + (IF output[i].type = "PAGE_BREAK" THEN 1 ELSE 0)
    /\ page_num = PageBefore(Len(output) + 1)

\* a PAGE_BREAK has been opened and closed and a later node emitted
C2_Witness ==
    /\ Len(output) >= 3
    /\ output[2].type = "PAGE_BREAK"
    /\ output[3].type # "PAGE_BREAK"
    /\ output[3].xml_node_depth = 2
    /\ output[3].survey_page_number = 2

\* C3: every record emitted between a GROUP's start and its matching end
\* carries the name, text and condition of its innermost enclosing GROUP
\* (the GROUP itself counting as enclosing its own record), nested GROUPs
\* included.
C3_GroupContextOfInnermostGroup ==
    \A i \in 1..Len(output) :
        enclosing[i].type = "GROUP" =>
            /\ output[i].group_name = enclosing[i].name
            /\ output[i].group_text = enclosing[i].text
            /\ output[i].group_condition = enclosing[i].condition

\* the q-field rows whose key is the field, with missing labels filled
LabelsOf(field) ==
    {FillNa(df_q_field[k].In_survey) :
        k \in {n \in 1..Len(df_q_field) : df_q_field[n].field = field}}

\* C13: after traversal every record has a row in the returned table, and
\* in every row survey_question_text is the record's traversal-derived
\* question_text when that is not 'NA'; when it is 'NA' it is an 'In survey'
\* label the q-field table holds for the record's field, and 'NA' when the
\* table holds none.
C13_TraversalTextWinsElseLabel ==
    walk_status = "returned" =>
        /\ \A i \in 1..Len(output) :
             \E j \in 1..Len(df_survey_spec_output) :
                 df_survey_spec_output[j].xml_node_number = i - 1
        /\ \A j \in 1..Len(df_survey_spec_output) :
             LET r   == df_survey_spec_output[j]
                 rec == output[r.xml_node_number + 1]
             IN  /\ r.field = rec.field
                 /\ rec.question_text # NA =>
                        r.survey_question_text = rec.question_text
                 /\ rec.question_text = NA =>
                        \/ r.survey_question_text \in LabelsOf(rec.field)
                        \/ /\ LabelsOf(rec.field) = {}
                           /\ r.survey_question_text = NA

\* a CHOOSE_MANY keeps its own text although its field q_2 has a label, and
\* a SIMPLE_QUESTION without traversal text takes the label of q_1
C13_Witness ==
    /\ walk_status = "returned"
    /\ \E k \in 1..Len(df_q_field) :
         df_q_field[k] = [field |-> "q_2", In_survey |-> "q2 label"]
    /\ \E j \in 1..Len(df_survey_spec_output) :
         /\ df_survey_spec_output[j].type = "CHOOSE_MANY"
         /\ df_survey_spec_output[j].survey_question_text = "cm text"
    /\ \E j \in 1..Len(df_survey_spec_output) :
         /\ df_survey_spec_output[j].type = "SIMPLE_QUESTION"
         /\ output[df_survey_spec_output[j].xml_node_number + 1]
                .question_text = NA
         /\ df_survey_spec_output[j].survey_question_text = "q1 label"

\* C15: before the first event page_num is 1 and group_name, group_text,
\* group_condition and question_text hold 'NA'; and once the root's start
\* event is delivered (the look-back failure of a root ALT_COLUMN aside) its
\* record is emitted with a defined question_text, a root GROUP included.
C15_InitialContextAtSentinel ==
    /\ starts = 0 =>
          /\ page_num = 1
          /\ group_name = NA /\ group_text = NA /\ group_condition = NA
          /\ question_text = NA
    /\ (open # <<>> /\ open[1].type # "ALT_COLUMN") =>
          /\ Len(output) >= 1
          /\ output[1].question_text # Unbound
          /\ walk_status # "error"

\* the record last emitted is a childless EXPLANATION whose end event was
\* the last event delivered
JustClosedExplanation ==
    /\ output # <<>>
    /\ output[Len(output)].type = "EXPLANATION"
    /\ output[Len(output)].xml_node_depth = Len(open) + 1

\* the step is the start event of an element on which no own-label rule
\* acts (rule 7 cannot act: the record before it is the EXPLANATION)
StartsPlainElement ==
    /\ Len(output') = Len(output) + 1
    /\ output'[Len(output')].type \notin
          {"GROUP", "CHOOSE_MANY", "GRID", "EXPLANATION", "ALT_ENTRY"}

EndsAltColumn ==
    /\ open # <<>>
    /\ open[Len(open)].type = "ALT_COLUMN"
    /\ Len(open') = Len(open) - 1

\* C17: rule 7 acts on the start event of an ALT_COLUMN only: the record of
\* an ALT_COLUMN whose preceding record is a SIMPLE_QUESTION carries
\* 'q-field text - ' + that record's field, and the end event of an
\* ALT_COLUMN never gives question_text a derived label (it leaves it as it
\* is, or at 'NA' outside a GROUP).
C17_Rule7OnStartOnly ==
    /\ [](\A i \in 2..Len(output) :
            (output[i].type = "ALT_COLUMN"
                /\ output[i - 1].type = "SIMPLE_QUESTION")
            => output[i].question_text = QFieldText(output[i - 1].field))
    /\ [][(EndsAltColumn /\ walk_status' # "error")
            => question_text' \in {question_text, NA}]_vars

\* C18: an ALT_COLUMN that is the first element of the document is traversed
\* without error: its record is emitted without a derived label and the
\* traversal goes on.
C18_FirstAltColumnTraversed ==
    (open # <<>> /\ open[1].type = "ALT_COLUMN") =>
        /\ walk_status # "error"
        /\ Len(output) >= 1
        /\ output[1].type = "ALT_COLUMN"
        /\ output[1].question_text = NA

\* C21: every record emitted while no GROUP element is open carries 'NA' as
\* group_name, group_text and group_condition, and xml_group_flag is set
\* only while some GROUP element is open.
C21_NoGroupOpenGivesSentinel ==
    /\ \A i \in 1..Len(output) :
         enclosing[i].type # "GROUP" =>
            /\ output[i].group_name = NA
            /\ output[i].group_text = NA
            /\ output[i].group_condition = NA
    /\ xml_group_flag => \E k \in 1..Len(open) : open[k].type = "GROUP"

\* GROUP g2 has been closed and the element after it emitted outside it
C21_Witness ==
    /\ Len(output) >= 3
    /\ output[2].type = "GROUP"
    /\ output[2].group_name = "g2"
    /\ output[3].xml_node_depth = 2
    /\ output[3].type = "SIMPLE_QUESTION"
    /\ output[3].group_name = NA
    /\ ~xml_group_flag

\* the text attribute of the element a record was emitted for
TextAttribute(rec) == (CHOOSE el \in Elements : el.type = rec.type).text

\* C22: the record of a CHOOSE_MANY, GRID or EXPLANATION node carries the
\* node's text attribute as question_text and the record of an ALT_ENTRY
\* carries the node's name attribute, whatever the group state and the
\* question_text left by earlier events.
C22_OwnLabelOnStart ==
    \A i \in 1..Len(output) :
        /\ output[i].type \in types =>
              output[i].question_text = TextAttribute(output[i])
        /\ output[i].type = "ALT_ENTRY" =>
              output[i].question_text = output[i].name

\* inside GROUP g2 an ALT_ENTRY and a CHOOSE_MANY follow an EXPLANATION
\* whose label question_text still held
C22_Witness ==
    /\ Len(output) >= 4
    /\ output[2].type = "GROUP"
    /\ output[3].type = "EXPLANATION"
    /\ output[4].type \in {"ALT_ENTRY", "CHOOSE_MANY"}
    /\ output[4].xml_node_depth = output[3].xml_node_depth
    /\ output[4].group_name = "g2"
    /\ output[4].question_text \in {"alt name", "cm text"}

\* C23: the nesting depth goes up by one on every element start and down by
\* one on every element end: the xml_node_depth of each record is the
\* number of elements open when it is emitted, the node included (the root
\* has 1), the depth is never negative and is 0 at the end of the document.
C23_DepthCountsOpenElements ==
    /\ [](/\ xml_nestingroup_depth >= 0
          /\ walk_status # "error" => xml_nestingroup_depth = Len(open)
          /\ walk_status \in {"traversed", "returned"} =>
                xml_nestingroup_depth = 0
          /\ output # <<>> => output[1].xml_node_depth = 1)
    /\ [][Len(output') = Len(output) + 1 =>
            output'[Len(output')].xml_node_depth = Len(open) + 1]_vars

\* a document is over in which an element at depth 3 was closed and a
\* sibling of its parent emitted at depth 2
C23_Witness ==
    /\ walk_status = "traversed"
    /\ Len(output) >= 4
    /\ output[3].xml_node_depth = 3
    /\ output[4].xml_node_depth = 2
    /\ xml_nestingroup_depth = 0

(***************************************************************************)
(* Claims about organize_alt_sets.                                         *)
(***************************************************************************)
RECURSIVE JoinSep(_)
JoinSep(strs) ==
    IF strs = <<>> THEN <<>>
    ELSE IF Len(strs) = 1 THEN strs[1]
    ELSE strs[1] \o Sep \o JoinSep(Tail(strs))

CountSep(str) == Cardinality({i \in 1..Len(str) : str[i] = "; "})

DistinctNames(table) == {table[i].Name : i \in 1..Len(table)}

FirstRowOf(table, nm) ==
    CHOOSE i \in 1..Len(table) :
        /\ table[i].Name = nm
        /\ \A j \in 1..(i - 1) : table[j].Name # nm

\* C4: organize_alt_sets returns exactly one row per distinct value of the
\* set-name column, in order of first appearance.
C4_OneRowPerDistinctName ==
    alt_result # NotCalled =>
        /\ alt_result.status = "returned"
        /\ Len(alt_result.rows) = Cardinality(DistinctNames(alt_table))
        /\ \A i, j \in 1..Len(alt_result.rows) :
             i < j => FirstRowOf(alt_table, alt_result.rows[i].alt_set_name)
                      < FirstRowOf(alt_table, alt_result.rows[j].alt_set_name)

NonNull(rows, col) == {i \in 1..Len(rows) : ~IsNull(rows[i][col])}

\* C5: null cells are skipped: for every set with a non-null label (resp.
\* export value), the labels (resp. values) string holds exactly (number of
\* rows of the set with a non-null label (resp. value)) - 1 separators.
C5_NullCellsSkipped ==
    alt_result.status = "returned" =>
        \A i \in 1..Len(alt_result.rows) :
            LET r    == alt_result.rows[i]
                rows == RowsOfSet(alt_table, r.alt_set_name)
                nl   == Cardinality(NonNull(rows, "InSurvey"))
                nv   == Cardinality(NonNull(rows, "ExportValue"))
            IN  /\ nl >= 1 => CountSep(r.alt_set_labels) = nl - 1
                /\ nv >= 1 => CountSep(r.alt_set_values) = nv - 1

NoNullCells(rows) ==
    \A i \in 1..Len(rows) :
        /\ ~IsNull(rows[i].AltSetNumber)
        /\ ~IsNull(rows[i].InSurvey)
        /\ ~IsNull(rows[i].ExportValue)

\* C6: for a set whose rows have no null cells the labels string and the
\* values string are the labels and the export values of its rows joined
\* with "; " in row order, and the number is the set number of its rows.
C6_JoinedInFileOrder ==
    alt_result.status = "returned" =>
        \A i \in 1..Len(alt_result.rows) :
            LET r    == alt_result.rows[i]
                rows == RowsOfSet(alt_table, r.alt_set_name)
            IN  NoNullCells(rows) =>
                  /\ r.alt_set_labels =
                       JoinSep([k \in 1..Len(rows) |-> rows[k].InSurvey.s])
                  /\ r.alt_set_values =
                       JoinSep([k \in 1..Len(rows) |->
                                    AltConv(rows[k].ExportValue)])
                  /\ \A k \in 1..Len(rows) :
                       (\A m \in 1..Len(rows) :
                            rows[m].AltSetNumber = rows[k].AltSetNumber)
                       => r.alt_set_number = rows[k].AltSetNumber.s

\* the items of a "; "-joined string
Items(str) == {str[i] : i \in 1..Len(str)} \ {"; "}

\* C19: the values string of a set is built only from the export values of
\* the rows of that set: the call returns a dataframe for every table, a
\* null export value in a set's first row included, and every item of a
\* row's alt_set_values is the text of the export value of a row of that
\* set.
C19_ValuesFromOwnSetOnly ==
    alt_result # NotCalled =>
        /\ alt_result.status = "returned"
        /\ \A i \in 1..Len(alt_result.rows) :
             LET r    == alt_result.rows[i]
                 rows == RowsOfSet(alt_table, r.alt_set_name)
             IN  \A item \in Items(r.alt_set_values) :
                    \E k \in 1..Len(rows) :
                        AltConv(rows[k].ExportValue) = <<item>>

\* C20: in every output row the labels list and the values list are
\* parallel: splitting alt_set_labels and alt_set_values on "; " gives
\* lists of the same length, whatever null or empty-string cells the table
\* holds.
C20_LabelsAndValuesParallel ==
    alt_result.status = "returned" =>
        \A i \in 1..Len(alt_result.rows) :
            CountSep(alt_result.rows[i].alt_set_labels) + 1
                = CountSep(alt_result.rows[i].alt_set_values) + 1

\* the text the claim gives an export value: integer text made canonical,
\* anything else as it is written
ExpectedValueText(cell) ==
    IF cell.s = <<"01">> THEN <<"1">> ELSE cell.s

\* C27: each export value is written as integer text when it can be read as
\* an integer and is otherwise kept exactly as it was: for a set whose
\* export values are neither null nor empty, the values string joins '1' for
\* '01', and '1.5' for the text '1.5' and for the number 1.5 alike.
C27_IntegerTextElseUnchanged ==
    alt_result.status = "returned" =>
        \A i \in 1..Len(alt_result.rows) :
            LET r    == alt_result.rows[i]
                rows == RowsOfSet(alt_table, r.alt_set_name)
            IN  (\A k \in 1..Len(rows) :
                    ~IsNull(rows[k].ExportValue)
                        /\ rows[k].ExportValue.s # <<>>)
                => r.alt_set_values =
                      JoinSep([k \in 1..Len(rows) |->
                                  ExpectedValueText(rows[k].ExportValue)])

(***************************************************************************)
(* Claims about parse_k_fields.                                            *)
(***************************************************************************)
EdgeSet(res) ==
    {<<res.rows[i].kfield, res.rows[i].components>> : i \in 1..Len(res.rows)}

SeqRange(seq) == {seq[i] : i \in 1..Len(seq)}

\* the keys of the q, e, a and k tables, as the field universe
Universe ==
    {Strip(x) : x \in SeqRange(q_keys) \cup SeqRange(e_keys)
                        \cup SeqRange(a_keys)
                        \cup {k_table[i].Key : i \in 1..Len(k_table)}}

Tokens(calc) == SeqRange(AllMatches(calc))

KeyOccursOnce(table, i) ==
    \A j \in 1..Len(table) :
        Strip(table[j].Key) = Strip(table[i].Key) => j = i

\* C7: an edge (k, f) is emitted if and only if f is a key of the q/e/a/k
\* universe and f is one of the tokens extracted from k's calculation text;
\* k_1 with "q_5 + q_6 * 2" against {q_5, q_6, q_7} gives exactly (k_1, q_5)
\* and (k_1, q_6).
C7_EdgeIffUniverseKeyAmongTokens ==
    k_edges # NotCalled =>
        /\ \A e \in EdgeSet(k_edges) :
             /\ e[2] \in Universe
             /\ \E i \in 1..Len(k_table) :
                  /\ Strip(k_table[i].Key) = e[1]
                  /\ e[2] \in Tokens(k_table[i].Calculation)
        /\ \A i \in 1..Len(k_table) :
             KeyOccursOnce(k_table, i) =>
                \A f \in Universe \cap Tokens(k_table[i].Calculation) :
                    <<Strip(k_table[i].Key), f>> \in EdgeSet(k_edges)
        /\ ( /\ k_table = <<[Key |-> k_1, Calculation |-> <<"q", "_", "5", " ", "+", " ", "q", "_", "6", " ", "*", " ", "2">>]>>
             /\ q_keys = <<q_5, q_6, q_7>> )
           => EdgeSet(k_edges) = {<<k_1, q_5>>, <<k_1, q_6>>}

\* the example of C7 has been parsed
C7_Witness ==
    /\ k_edges # NotCalled
    /\ k_table = <<[Key |-> k_1, Calculation |-> <<"q", "_", "5", " ", "+", " ", "q", "_", "6", " ", "*", " ", "2">>]>>
    /\ q_keys = <<q_5, q_6, q_7>>
    /\ Len(k_edges.rows) = 2

\* C8 as stated: for every k-field table, rows with a repeated key and
\* different calculation text included, every reordering of the rows yields
\* the same set of edges.
C8_OrderIndependentAlways ==
    k_perm_edges # NotCalled => EdgeSet(k_perm_edges) = EdgeSet(k_edges)

NoConflictingKey(table) ==
    \A i, j \in 1..Len(table) :
        Strip(table[i].Key) = Strip(table[j].Key)
            => table[i].Calculation = table[j].Calculation

\* C8 (amended): for every k-field table in which no key occurs on more than
\* one row with different calculation text, every reordering of the rows
\* yields the same set of edges.
C8_OrderIndependentUniqueKeys ==
    (k_perm_edges # NotCalled /\ NoConflictingKey(k_table))
        => EdgeSet(k_perm_edges) = EdgeSet(k_edges)

\* two rows with different keys, each with edges, parsed in both orders
C8_Witness ==
    /\ k_perm_edges # NotCalled
    /\ Len(k_table) = 2
    /\ k_perm = <<k_table[2], k_table[1]>>
    /\ Strip(k_table[1].Key) # Strip(k_table[2].Key)
    /\ \E e1, e2 \in EdgeSet(k_edges) : e1[1] # e2[1]

\* C24: tokens are whole on the right: a token is the prefix letter, the
\* underscore and the longest run of word characters after it, so the
\* calculation "q_50" holds the one token q_50 and gives its k-field an
\* edge to q_50 when q_50 is a key, and never an edge to q_5, although q_5
\* is a key and a prefix of q_50.
C24_WholeTokenOnTheRight ==
    k_edges # NotCalled =>
        \A i \in 1..Len(k_table) :
            (KeyOccursOnce(k_table, i) /\ k_table[i].Calculation = q_50) =>
                /\ <<Strip(k_table[i].Key), q_5>> \notin EdgeSet(k_edges)
                /\ q_50 \in Universe =>
                      <<Strip(k_table[i].Key), q_50>> \in EdgeSet(k_edges)
                /\ \A e \in EdgeSet(k_edges) :
                      e[1] = Strip(k_table[i].Key) => e[2] = q_50

\* k_1 = "q_50" has been parsed against the keys q_5 and q_50
C24_Witness ==
    /\ k_edges # NotCalled
    /\ k_table = <<[Key |-> k_1, Calculation |-> q_50]>>
    /\ q_keys = <<q_5_padded, q_50>>
    /\ q_5 \in Universe
    /\ EdgeSet(k_edges) = {<<k_1, q_50>>}

\* C25: references are not resolved transitively: when k_a's calculation
\* holds the token k_b, k_b's calculation holds the token of a key q_x and
\* k_a's own calculation does not, the output holds (k_a, k_b) and
\* (k_b, q_x) and does not hold (k_a, q_x).
C25_NoTransitiveReferences ==
    k_edges # NotCalled =>
        \A a, b \in 1..Len(k_table) :
            (KeyOccursOnce(k_table, a) /\ KeyOccursOnce(k_table, b)) =>
                LET k_a == Strip(k_table[a].Key)
                    k_b == Strip(k_table[b].Key)
                IN  \A q_x \in Universe :
                        ( /\ k_b \in Tokens(k_table[a].Calculation)
                          /\ q_x \in Tokens(k_table[b].Calculation)
                          /\ q_x \notin Tokens(k_table[a].Calculation) )
                        => /\ <<k_a, k_b>> \in EdgeSet(k_edges)
                           /\ <<k_b, q_x>> \in EdgeSet(k_edges)
                           /\ <<k_a, q_x>> \notin EdgeSet(k_edges)

\* k_2 = "k_1*2" and k_1 = "q_5 + q_6 * 2" have been parsed
C25_Witness ==
    /\ k_edges # NotCalled
    /\ Len(k_table) = 2
    /\ k_table[1] = [Key |-> k_2, Calculation |-> <<"k", "_", "1", "*", "2">>]
    /\ k_table[2].Key = k_1
    /\ q_5 \in Tokens(k_table[2].Calculation)
    /\ q_keys = <<q_5, q_6, q_7>>
    /\ EdgeSet(k_edges) = {<<k_2, k_1>>, <<k_1, q_5>>, <<k_1, q_6>>}

\* C26: self-reference is not filtered: whenever the calculation of a
\* k-field holds the k-field's own key as a token, the edge (k, k) is in
\* the output.
C26_SelfReferenceKept ==
    k_edges # NotCalled =>
        \A i \in 1..Len(k_table) :
            ( /\ KeyOccursOnce(k_table, i)
              /\ Strip(k_table[i].Key) \in Tokens(k_table[i].Calculation) )
            => <<Strip(k_table[i].Key), Strip(k_table[i].Key)>>
                    \in EdgeSet(k_edges)

\* the row 'k_1 ' = "k_1*2" has been parsed
C26_Witness ==
    /\ k_edges # NotCalled
    /\ k_table = <<[Key |-> k_1_padded,
                    Calculation |-> <<"k", "_", "1", "*", "2">>]>>
    /\ EdgeSet(k_edges) = {<<k_1, k_1>>}

(***************************************************************************)
(* Claims about the readers and create_export_spec.                        *)
(***************************************************************************)
\* C9: for every reader, a path that does not name an existing file makes
\* the call print that reader's diagnostic and return None, no exception
\* escapes and no file is opened.
C9_MissingPathGivesNoneAndDiagnostic ==
    (read_call # NoCall /\ fs[read_call.path] = "missing") =>
        /\ read_call.result.ret = "None"
        /\ read_call.result.printed = <<PathDiagnostic(read_call.reader)>>
        /\ ~read_call.result.raised
        /\ read_call.result.opened = {}

\* read_exports has been called on a path that names nothing
C9_Witness ==
    /\ read_call # NoCall
    /\ read_call.reader = "read_exports"
    /\ fs[read_call.path] = "missing"
    /\ read_call.result.ret = "None"

\* C11: create_export_spec processes the inputs it is given: the paths handed
\* to the readers are the q_path, e_path, k_path, alt_set_path, export_path
\* and survey_xml_path arguments and the export looked up is the one named
\* by the export_name argument (so calls that differ in export_name look up
\* different exports).
C11_ProcessesGivenInputs ==
    export_call # NoCall =>
        /\ export_call.result.inputs = export_call.args
        /\ export_call.result.opened \subseteq
              {export_call.args.q_path, export_call.args.e_path,
               export_call.args.k_path, export_call.args.alt_set_path,
               export_call.args.export_path,
               export_call.args.survey_xml_path}

\* C10: whenever one of the five upstream readers returns an absent result,
\* create_export_spec prints a diagnostic and returns nothing, and no
\* exception propagates to its caller.
C10_FailsSilently ==
    (export_call # NoCall /\ export_call.result.absent # {}) =>
        /\ export_call.result.printed # <<>>
        /\ export_call.result.ret # "DataFrame"
        /\ ~export_call.result.raised

(***************************************************************************)
(* Claims about read_exports and read_alt_sets.                            *)
(***************************************************************************)
\* line i of the exports file is read and examined: it is not one of the
\* first two lines and no line up to it holds the stopping text
InWindow(i) ==
    /\ i > 2
    /\ \A j \in 1..i : ~Contains(exports_file[j], EpisodeMarker)

\* the examined lines whose trimmed second cell is the export name
MatchingLines(export_name) ==
    {i \in 1..Len(exports_file) :
        /\ InWindow(i)
        /\ Len(exports_file[i]) >= 2
        /\ TrimmedValues(exports_file[i])[2] = export_name}

MarkerLine ==
    IF \E i \in 1..Len(alt_file) : Contains(alt_file[i], AlternativeMarker)
    THEN CHOOSE i \in 1..Len(alt_file) :
            /\ Contains(alt_file[i], AlternativeMarker)
            /\ \A j \in 1..(i - 1) :
                 ~Contains(alt_file[j], AlternativeMarker)
    ELSE 0

\* the data lines: those after the marker line and the header line under it
DataLines ==
    IF MarkerLine = 0 THEN {} ELSE (MarkerLine + 2)..Len(alt_file)

\* C14: a data line with fewer cells than columns is kept: when the marker
\* and a header line are there and no data line has more than 18 cells,
\* read_alt_sets returns a table; a returned table has one row of 19 cells
\* per data line, in order, and the row of a line with n < 18 cells is the
\* set number, the line's n trimmed cells, and 'NA' in the 18 - n cells
\* left.
C14_ShortLinesPaddedWithNA ==
    alt_read # NoCall =>
        LET res == alt_read.result
        IN  /\ ( /\ MarkerLine # 0
                 /\ MarkerLine < Len(alt_file)
                 /\ \A i \in DataLines :
                      Len(alt_file[i]) < NumAltSetHeaders )
               => res.status = "returned"
            /\ res.status = "returned" =>
                  /\ Len(res.rows) = Cardinality(DataLines)
                  /\ \A i \in DataLines :
                       LET row == res.rows[i - MarkerLine - 1]
                           n   == Len(alt_file[i])
                       IN  /\ Len(row) = NumAltSetHeaders
                           /\ \A k \in 1..n :
                                row[k + 1] =
                                    StripNewline(Strip(alt_file[i][k]))
                           /\ \A k \in (n + 2)..NumAltSetHeaders :
                                row[k] = <<"N", "A">>

\* a file with a 3-cell data line and an empty data line has been read:
\* set number 7 with 15 cells filled in, and a row with 17 cells filled in
C14_Witness ==
    /\ alt_read # NoCall
    /\ alt_read.result.status = "returned"
    /\ Len(alt_read.result.rows) = 2
    /\ \E n \in 1..2 :
         /\ alt_read.result.rows[n][1] = <<"7">>
         /\ alt_read.result.rows[n][2] = <<"7", "_", "1">>
         /\ alt_read.result.rows[n][5] = <<"N", "A">>
         /\ alt_read.result.rows[n][19] = <<"N", "A">>
    /\ \E n \in 1..2 :
         /\ alt_read.result.rows[n][1] = <<>>
         /\ alt_read.result.rows[n][3] = <<"N", "A">>

(***************************************************************************)
(* Claims about response-update.py.                                        *)
(***************************************************************************)
\* the status text a finished call leaves in the table
RecordedStatus(outcome) ==
    CASE outcome = "200" -> "Status: 200"
      [] outcome = "404" -> "Status: 404"
      [] OTHER           -> "Function Error"

HasResult(row) ==
    /\ {"Result Detail", "HTTP Status"} \subseteq DOMAIN row
    /\ row["Result Detail"] # NaN
    /\ row["HTTP Status"] # NaN

\* C28: updates go out one at a time and are never retried: no row is sent
\* twice and only rows with a survey id are sent; a request is issued only
\* when every earlier call has returned; each call that returned, also one
\* that raised ('Function Error') or got an error status, is recorded in its
\* row and the loop goes on; and when the loop has ended every row with a
\* non-null SurveyId has had its one request and has 'Result Detail' and
\* 'HTTP Status' set.
C28_OneAttemptPerRowInSequence ==
    /\ \A a, b \in 1..Len(requests) :
          requests[a].row = requests[b].row => a = b
    /\ \A a \in 1..Len(requests) :
          df_input[requests[a].row]["SurveyId"] # NaN
    /\ Len(responses) <= Len(requests)
    /\ Len(requests) <= Len(responses) + 1
    /\ \A k \in 1..Len(responses) :
          /\ responses[k].row = requests[k].row
          /\ HasResult(df_input[responses[k].row])
          /\ df_input[responses[k].row]["HTTP Status"] =
                RecordedStatus(responses[k].outcome)
    /\ upd_pc = "done" =>
          \A i \in 1..Len(df_input) :
              df_input[i]["SurveyId"] # NaN =>
                  /\ \E k \in 1..Len(responses) : responses[k].row = i
                  /\ HasResult(df_input[i])

\* the loop has ended after a call that raised and a later call
C28_Witness ==
    /\ upd_pc = "done"
    /\ Len(responses) >= 2
    /\ responses[1].outcome = "raise"
    /\ df_input[responses[1].row]["HTTP Status"] = "Function Error"

\* the columns of the input file
InputColumns(row) == DOMAIN row \ {"Result Detail", "HTTP Status"}

\* C29: the embeddedData of every request holds exactly the columns of the
\* input other than 'SurveyId' and 'ResponseId', each with the value of the
\* request's own row, and the request names that row's survey and response.
C29_OwnRowFieldsOnly ==
    \A k \in 1..Len(requests) :
        LET row == df_input[requests[k].row]
        IN  /\ DOMAIN requests[k].embeddedData =
                  InputColumns(row) \ {"SurveyId", "ResponseId"}
            /\ \A c \in DOMAIN requests[k].embeddedData :
                  requests[k].embeddedData[c] = row[c]
            /\ requests[k].surveyId = row["SurveyId"]
            /\ requests[k].response_id = row["ResponseId"]

\* a second request whose row has an empty cell where the row sent before
\* had a value
C29_Witness ==
    /\ Len(requests) >= 2
    /\ df_input[requests[1].row]["Q1"] = "a"
    /\ df_input[requests[2].row]["Q1"] = NaN
    /\ requests[2].embeddedData["Q1"] = NaN

(***************************************************************************)
(* Claims about the joins of create_export_spec.                           *)
(***************************************************************************)
\* the rows of the export specification made from export row e
RowsOfExport(e) ==
    SelectSeq(join_result.result.rows,
              LAMBDA r : r.ColumnNumber = e.ColumnNumber)

\* the field rows the export row refers to, whitespace at the ends apart
FieldsOfExport(e) ==
    SelectSeq(join_fields,
              LAMBDA f : StrStrip(f.Key) = StrStrip(e.ExportFields))

\* some field row of e names a numbered alt set that was organized
HasAltSet(e) ==
    \E i \in 1..Len(FieldsOfExport(e)), k \in 1..Len(join_alt_sets) :
        /\ ~FieldsOfExport(e)[i].AlternativeSet.nan
        /\ ~ToNumericRaises(join_alt_sets[k].alt_set_number)
        /\ to_numeric(join_alt_sets[k].alt_set_number) =
              FieldsOfExport(e)[i].AlternativeSet

\* some survey row carries the key of a field row of e
HasSurveyRow(e) ==
    \E i \in 1..Len(FieldsOfExport(e)), k \in 1..Len(join_survey) :
        join_survey[k].field = StrStrip(FieldsOfExport(e)[i].Key)

\* C30: in the export specification create_export_spec returns, every row of
\* read_exports appears at least once with its Column Number, Export
\* Number, Export Name and Export Fields unchanged; the field name is 'NA'
\* when no field row has the export's key, the alt-set name, labels and
\* values are 'NA' when no numbered alt set belongs to the field, and the
\* survey question text is 'NA' when no survey row has the key.
C30_LeftRowsKeptUnmatchedNA ==
    (join_result # NoCall /\ join_result.result.status = "returned") =>
        \A i \in 1..Len(join_export) :
            LET e    == join_export[i]
                rows == RowsOfExport(e)
            IN  /\ rows # <<>>
                /\ \A k \in 1..Len(rows) :
                      /\ rows[k].ExportNumber = e.ExportNumber
                      /\ rows[k].ExportName = e.ExportName
                      /\ rows[k].ExportFields = e.ExportFields
                      /\ FieldsOfExport(e) = <<>> =>
                            rows[k].FieldName = NAText
                      /\ ~HasAltSet(e) =>
                            /\ rows[k].alt_set_name = NAText
                            /\ rows[k].alt_set_labels = NAText
                            /\ rows[k].alt_set_values = NAText
                      /\ ~HasSurveyRow(e) =>
                            rows[k].SurveyQuestionText = NAText

====
